---- MODULE Spec2Model ----
(***************************************************************************)
(* A model of the Discord markdown formatter: the selection transform      *)
(* engine (src/lib/selection.ts), the sanitizer (lib/sanitize), the        *)
(* timestamp formatter and the custom inline rules (src/lib/markdown.ts).  *)
(*                                                                         *)
(* Strings are sequences of one-character strings, so that every index     *)
(* computation of the source is an index computation here.  JavaScript     *)
(* indices are 0-based: the character s[k] of the source is s[k+1] here.   *)
(***************************************************************************)
EXTENDS Integers, Sequences, FiniteSets, TLC

VARIABLES
  content,    \* editor buffer (store field content; the textarea's value)
  selection,  \* the textarea's selection [start, end]
  hist,       \* the formatter calls made so far, oldest first
  dirty,      \* the HTML handed to sanitizeHtml, as a forest of nodes
  clean,      \* <<>> until sanitizeHtml has run, then <<its result>>
  urlIn,      \* the string handed to sanitizeUrl
  urlOuts,    \* what sanitizeUrl returned: for urlIn, then for its own result
  clock,      \* the ambient clock, Math.floor(Date.now() / 1000)
  epochIn,    \* the epoch handed to formatTimestamp
  styleIn,    \* the style handed to formatTimestamp
  outs,       \* the calls of formatTimestamp made so far: clock read and result
  inline,     \* the StateInline object: src, pos, posMax, pending, tokens
  ruleLog,    \* the inline rule calls made so far: rule, mode, start, result
  ruler,      \* md.inline.ruler: the names of the inline rules, in order
  tried,      \* how many rules of the chain were tried at the cursor
  fence,      \* the code and the language tag handed to the highlight option
  rendered,   \* what highlight and escapeHtml returned so far
  store,      \* useAppStore: theme, tz, analyticsEnabled, drafts (and content)
  localStorage, \* the browser's storage: key -> JSON value, where a key is set
  hydrated,   \* the application has mounted and called hydrate
  lastCall,   \* the last store action: name, argument, the store before it
  loadedLanguages, \* the registry's set of loaded language ids
  infoLoaded, \* the loaded flag of each entry of ALL_LANGUAGES
  loads,      \* the loadLanguage calls: argument, resolved id, state
  aliasCalls  \* the tags resolved so far, by the picker and by the renderer

editorVars == <<content, selection, hist>>

sanitizerVars == <<dirty, clean, urlIn, urlOuts>>

timeVars == <<epochIn, styleIn, outs>>

parserVars == <<inline, ruleLog>>

rendererVars == <<ruler, tried, fence, rendered>>

storeVars == <<store, localStorage, hydrated, lastCall>>

registryVars == <<loadedLanguages, infoLoaded, loads, aliasCalls>>

vars == <<editorVars, sanitizerVars, clock, timeVars, parserVars, rendererVars,
          storeVars, registryVars>>

\* The language tables of the registry (lib/languages): a language has an
\* id, aliases and the flag it was declared with.
LanguageInfo(id, aliases, loaded) == [id |-> id, aliases |-> aliases, loaded |-> loaded]

\* the languages bundled with the application
CORE_LANGUAGES ==
  <<LanguageInfo(<<"j", "a", "v", "a", "s", "c", "r", "i", "p", "t">>, <<<<"j", "s">>>>, TRUE),
    LanguageInfo(<<"t", "y", "p", "e", "s", "c", "r", "i", "p", "t">>, <<<<"t", "s">>>>, TRUE),
    LanguageInfo(<<"p", "y", "t", "h", "o", "n">>, <<<<"p", "y">>>>, TRUE),
    LanguageInfo(<<"j", "s", "o", "n">>, <<>>, TRUE),
    LanguageInfo(<<"b", "a", "s", "h">>, <<<<"s", "h">>, <<"s", "h", "e", "l", "l">>>>, TRUE),
    LanguageInfo(<<"c", "s", "s">>, <<>>, TRUE),
    LanguageInfo(<<"m", "a", "r", "k", "d", "o", "w", "n">>, <<<<"m", "d">>>>, TRUE)>>

\* the languages loaded on demand
ADDITIONAL_LANGUAGES ==
  <<LanguageInfo(<<"c">>, <<>>, FALSE),
    LanguageInfo(<<"c", "p", "p">>, <<<<"c", "+", "+">>>>, FALSE),
    LanguageInfo(<<"c", "s", "h", "a", "r", "p">>, <<<<"c", "s">>, <<"c", "#">>>>, FALSE),
    LanguageInfo(<<"j", "a", "v", "a">>, <<>>, FALSE),
    LanguageInfo(<<"g", "o">>, <<<<"g", "o", "l", "a", "n", "g">>>>, FALSE),
    LanguageInfo(<<"r", "u", "s", "t">>, <<<<"r", "s">>>>, FALSE),
    LanguageInfo(<<"r", "u", "b", "y">>, <<<<"r", "b">>>>, FALSE),
    LanguageInfo(<<"p", "h", "p">>, <<>>, FALSE),
    LanguageInfo(<<"s", "w", "i", "f", "t">>, <<>>, FALSE),
    LanguageInfo(<<"k", "o", "t", "l", "i", "n">>, <<<<"k", "t">>>>, FALSE),
    LanguageInfo(<<"s", "q", "l">>, <<>>, FALSE),
    LanguageInfo(<<"y", "a", "m", "l">>, <<<<"y", "m", "l">>>>, FALSE),
    LanguageInfo(<<"x", "m", "l">>, <<<<"h", "t", "m", "l">>, <<"s", "v", "g">>>>, FALSE),
    LanguageInfo(<<"j", "s", "x">>, <<<<"r", "e", "a", "c", "t">>>>, FALSE),
    LanguageInfo(<<"t", "s", "x">>, <<>>, FALSE),
    LanguageInfo(<<"s", "c", "s", "s">>, <<<<"s", "a", "s", "s">>>>, FALSE),
    LanguageInfo(<<"d", "i", "f", "f">>, <<<<"p", "a", "t", "c", "h">>>>, FALSE),
    LanguageInfo(<<"d", "o", "c", "k", "e", "r">>, <<<<"d", "o", "c", "k", "e", "r", "f", "i", "l", "e">>>>, FALSE),
    LanguageInfo(<<"g", "r", "a", "p", "h", "q", "l">>, <<<<"g", "q", "l">>>>, FALSE),
    LanguageInfo(<<"l", "u", "a">>, <<>>, FALSE),
    LanguageInfo(<<"p", "e", "r", "l">>, <<<<"p", "l">>>>, FALSE),
    LanguageInfo(<<"p", "o", "w", "e", "r", "s", "h", "e", "l", "l">>, <<<<"p", "s", "1">>, <<"p", "s">>>>, FALSE),
    LanguageInfo(<<"r">>, <<>>, FALSE),
    LanguageInfo(<<"s", "c", "a", "l", "a">>, <<>>, FALSE),
    LanguageInfo(<<"t", "o", "m", "l">>, <<>>, FALSE),
    LanguageInfo(<<"i", "n", "i">>, <<>>, FALSE)>>

ALL_LANGUAGES == CORE_LANGUAGES \o ADDITIONAL_LANGUAGES

\* the ids of a table
IdsOf(table) == {table[k].id : k \in 1..Len(table)}

\* the settings a store starts with, and storage.ts falls back to
SystemTz == "Europe/Paris"

defaultSettings == [theme |-> "system", tz |-> SystemTz, analyticsEnabled |-> FALSE]


\* The parts of the program do not share state: while one is explored the
\* others rest in their state after construction.
IdleEditor ==
  content = <<>> /\ selection = [start |-> 0, end |-> 0] /\ hist = <<>>

IdleSanitizer == dirty = <<>> /\ clean = <<>> /\ urlIn = <<>> /\ urlOuts = <<>>

IdleTime == epochIn = 0 /\ styleIn = <<>> /\ outs = <<>>

IdleParser ==
  /\ inline = [src |-> <<>>, pos |-> 0, posMax |-> 0, pending |-> <<>>, tokens |-> <<>>]
  /\ ruleLog = <<>>

IdleRenderer ==
  ruler = <<>> /\ tried = 0 /\ fence = [code |-> <<>>, lang |-> <<>>] /\ rendered = <<>>

IdleStore ==
  /\ store = [theme |-> defaultSettings.theme, tz |-> defaultSettings.tz,
              analyticsEnabled |-> defaultSettings.analyticsEnabled, drafts |-> <<>>]
  /\ localStorage = <<>>
  /\ hydrated = FALSE
  /\ lastCall = <<>>

IdleRegistry ==
  /\ loadedLanguages = IdsOf(CORE_LANGUAGES)
  /\ infoLoaded = [id \in IdsOf(ALL_LANGUAGES) |-> id \in IdsOf(CORE_LANGUAGES)]
  /\ loads = <<>>
  /\ aliasCalls = <<>>

----------------------------------------------------------------------------
(* Bounds of the exploration *)

\* longest editor buffer drawn in the initial state
MaxLen == 3

\* how many times in a row the toolbar button is pressed
MaxPresses == 2

----------------------------------------------------------------------------
(* JavaScript string primitives, as the source uses them *)

Min(a, b) == IF a < b THEN a ELSE b

Max(a, b) == IF a > b THEN a ELSE b

SetMax(S) == CHOOSE x \in S : \A y \in S : y <= x

SetMin(S) == CHOOSE x \in S : \A y \in S : x <= y

NL == "\n"

\* String.prototype.slice(a, b): negative indices count from the end, both
\* ends are clamped to the string, an empty range gives "".
slice(s, a, b) ==
  LET n    == Len(s)
      from == IF a < 0 THEN Max(n + a, 0) ELSE Min(a, n)
      to   == IF b < 0 THEN Max(n + b, 0) ELSE Min(b, n)
  IN  IF from >= to THEN <<>> ELSE SubSeq(s, from + 1, to)

\* String.prototype.slice(a) with the end left out
sliceFrom(s, a) == slice(s, a, Len(s))

startsWith(s, p) == Len(p) <= Len(s) /\ SubSeq(s, 1, Len(p)) = p

endsWith(s, p) == Len(p) <= Len(s) /\ SubSeq(s, Len(s) - Len(p) + 1, Len(s)) = p

\* String.prototype.indexOf(ch, position) for a one-character search string:
\* position is clamped to [0, length]; -1 when there is no match.
indexOf(s, ch, position) ==
  LET from == Min(Max(position, 0), Len(s))
      K    == {k \in from..(Len(s) - 1) : s[k + 1] = ch}
  IN  IF K = {} THEN -1 ELSE SetMin(K)

\* String.prototype.lastIndexOf(ch, position) for a one-character search
\* string: position is clamped to [0, length - 1], so a negative position
\* still looks at index 0; -1 when there is no match.
lastIndexOf(s, ch, position) ==
  LET from == Min(Max(position, 0), Len(s) - 1)
      K    == {k \in 0..from : s[k + 1] = ch}
  IN  IF K = {} THEN -1 ELSE SetMax(K)

\* String.prototype.split(ch) for a one-character separator
RECURSIVE split(_, _)
split(s, ch) ==
  LET i == indexOf(s, ch, 0)
  IN  IF i = -1 THEN <<s>>
      ELSE <<slice(s, 0, i)>> \o split(sliceFrom(s, i + 1), ch)

\* Array.prototype.join(ch)
RECURSIVE join(_, _)
join(lines, ch) ==
  IF Len(lines) = 0 THEN <<>>
  ELSE IF Len(lines) = 1 THEN lines[1]
  ELSE lines[1] \o <<ch>> \o join(Tail(lines), ch)

UpperCase == <<"A", "B", "C", "D", "E", "F", "G", "H", "I", "J", "K", "L", "M", "N", "O", "P", "Q", "R", "S", "T", "U", "V", "W", "X", "Y", "Z">>

LowerCase == <<"a", "b", "c", "d", "e", "f", "g", "h", "i", "j", "k", "l", "m", "n", "o", "p", "q", "r", "s", "t", "u", "v", "w", "x", "y", "z">>

Digits == {"0", "1", "2", "3", "4", "5", "6", "7", "8", "9"}

\* String.prototype.toLowerCase on one character; the i flag of a regular
\* expression compares characters this way
toLowerCase(c) ==
  IF \E i \in 1..26 : UpperCase[i] = c
  THEN LowerCase[CHOOSE i \in 1..26 : UpperCase[i] = c]
  ELSE c

\* String.prototype.includes
includes(s, sub) ==
  \E i \in 0..(Len(s) - Len(sub)) : SubSeq(s, i + 1, i + Len(sub)) = sub

isWhiteSpace(c) == c \in {" ", "\t", "\n", "\r"}

\* String.prototype.trimStart()
RECURSIVE trimStart(_)
trimStart(s) ==
  IF Len(s) > 0 /\ isWhiteSpace(s[1]) THEN trimStart(Tail(s)) ELSE s

\* String.prototype.trimEnd()
RECURSIVE trimEnd(_)
trimEnd(s) ==
  IF Len(s) > 0 /\ isWhiteSpace(s[Len(s)])
  THEN trimEnd(SubSeq(s, 1, Len(s) - 1)) ELSE s

\* String.prototype.trim()
trim(s) == trimEnd(trimStart(s))

----------------------------------------------------------------------------
(* The selection transform engine: src/lib/selection.ts *)

WrapResult(t, s, e) == [text |-> t, selection |-> [start |-> s, end |-> e]]

\* toggleWrap with the surrounding-token unwrap leaving the selection where
\* it was instead of moving it left
toggleWrapKeepSelection(text, start, end, token) ==
  LET before   == slice(text, 0, start)
      selected == slice(text, start, end)
      after    == sliceFrom(text, end)
  IN  IF endsWith(before, token) /\ startsWith(after, token)
      THEN WrapResult(slice(before, 0, -Len(token)) \o selected
                        \o sliceFrom(after, Len(token)),
                      start, end)
      ELSE IF startsWith(selected, token) /\ endsWith(selected, token)
              /\ Len(selected) >= Len(token) * 2
      THEN WrapResult(before \o slice(selected, Len(token), -Len(token)) \o after,
                      start, end - Len(token) * 2)
      ELSE WrapResult(before \o token \o selected \o token \o after,
                      start + Len(token), end + Len(token))

\* toggleWrap trying the inner unwrap before the surrounding one
toggleWrapInnerFirst(text, start, end, token) ==
  LET before   == slice(text, 0, start)
      selected == slice(text, start, end)
      after    == sliceFrom(text, end)
  IN  IF startsWith(selected, token) /\ endsWith(selected, token)
         /\ Len(selected) >= Len(token) * 2
      THEN WrapResult(before \o slice(selected, Len(token), -Len(token)) \o after,
                      start, end - Len(token) * 2)
      ELSE IF endsWith(before, token) /\ startsWith(after, token)
      THEN WrapResult(slice(before, 0, -Len(token)) \o selected
                        \o sliceFrom(after, Len(token)),
                      start - Len(token), end - Len(token))
      ELSE WrapResult(before \o token \o selected \o token \o after,
                      start + Len(token), end + Len(token))

toggleWrap(text, start, end, token) ==
  LET before   == slice(text, 0, start)
      selected == slice(text, start, end)
      after    == sliceFrom(text, end)
      hasTokenBefore == endsWith(before, token)
      hasTokenAfter  == startsWith(after, token)
      selectedHasTokenStart == startsWith(selected, token)
      selectedHasTokenEnd   == endsWith(selected, token)
  IN  IF hasTokenBefore /\ hasTokenAfter
      THEN WrapResult(slice(before, 0, -Len(token)) \o selected
                        \o sliceFrom(after, Len(token)),
                      start - Len(token), end - Len(token))
      ELSE IF selectedHasTokenStart /\ selectedHasTokenEnd
              /\ Len(selected) >= Len(token) * 2
      THEN WrapResult(before \o slice(selected, Len(token), -Len(token)) \o after,
                      start, end - Len(token) * 2)
      ELSE WrapResult(before \o token \o selected \o token \o after,
                      start + Len(token), end + Len(token))

toggleWrapAsymmetric(text, start, end, startToken, endToken) ==
  LET before   == slice(text, 0, start)
      selected == slice(text, start, end)
      after    == sliceFrom(text, end)
      hasTokenBefore == endsWith(before, startToken)
      hasTokenAfter  == startsWith(after, endToken)
  IN  IF hasTokenBefore /\ hasTokenAfter
      THEN WrapResult(slice(before, 0, -Len(startToken)) \o selected
                        \o sliceFrom(after, Len(endToken)),
                      start - Len(startToken), end - Len(startToken))
      ELSE WrapResult(before \o startToken \o selected \o endToken \o after,
                      start + Len(startToken), end + Len(startToken))

insertAt(text, position, toInsert) ==
  WrapResult(slice(text, 0, position) \o toInsert \o sliceFrom(text, position),
             position + Len(toInsert), position + Len(toInsert))

\* toggleBlockPrefix stripping the prefix but not the space after it
toggleBlockPrefixKeepSpace(text, start, end, prefix) ==
  LET lineStart == lastIndexOf(text, NL, start - 1) + 1
      lineEnd   == indexOf(text, NL, end)
      actualEnd == IF lineEnd = -1 THEN Len(text) ELSE lineEnd
      lines     == split(slice(text, lineStart, actualEnd), NL)
      prefixWithSpace == prefix \o <<" ">>
      hasPrefix(line) == startsWith(line, prefixWithSpace)
      nonBlank(line)  == trim(line) # <<>>
      allHavePrefix ==
        \A i \in 1..Len(lines) : hasPrefix(lines[i]) \/ trim(lines[i]) = <<>>
      newLines ==
        IF allHavePrefix
        THEN [i \in 1..Len(lines) |->
                IF hasPrefix(lines[i])
                THEN sliceFrom(lines[i], Len(prefix)) ELSE lines[i]]
        ELSE [i \in 1..Len(lines) |->
                IF nonBlank(lines[i]) THEN prefixWithSpace \o lines[i] ELSE lines[i]]
      deltaLength ==
        IF allHavePrefix
        THEN (-Len(prefix))
               * Cardinality({i \in 1..Len(lines) : hasPrefix(lines[i])})
        ELSE Len(prefixWithSpace)
               * Cardinality({i \in 1..Len(lines) : nonBlank(lines[i])})
  IN  WrapResult(slice(text, 0, lineStart) \o join(newLines, NL)
                   \o sliceFrom(text, actualEnd),
                 lineStart, actualEnd + deltaLength)

\* toggleBlockPrefix adding the prefix only to the lines that lack it
toggleBlockPrefixSkipPrefixed(text, start, end, prefix) ==
  LET lineStart == lastIndexOf(text, NL, start - 1) + 1
      lineEnd   == indexOf(text, NL, end)
      actualEnd == IF lineEnd = -1 THEN Len(text) ELSE lineEnd
      lines     == split(slice(text, lineStart, actualEnd), NL)
      prefixWithSpace == prefix \o <<" ">>
      hasPrefix(line) == startsWith(line, prefixWithSpace)
      toAdd(line)     == trim(line) # <<>> /\ ~hasPrefix(line)
      allHavePrefix ==
        \A i \in 1..Len(lines) : hasPrefix(lines[i]) \/ trim(lines[i]) = <<>>
      newLines ==
        IF allHavePrefix
        THEN [i \in 1..Len(lines) |->
                IF hasPrefix(lines[i])
                THEN sliceFrom(lines[i], Len(prefixWithSpace)) ELSE lines[i]]
        ELSE [i \in 1..Len(lines) |->
                IF toAdd(lines[i]) THEN prefixWithSpace \o lines[i] ELSE lines[i]]
      deltaLength ==
        IF allHavePrefix
        THEN (-Len(prefixWithSpace))
               * Cardinality({i \in 1..Len(lines) : hasPrefix(lines[i])})
        ELSE Len(prefixWithSpace)
               * Cardinality({i \in 1..Len(lines) : toAdd(lines[i])})
  IN  WrapResult(slice(text, 0, lineStart) \o join(newLines, NL)
                   \o sliceFrom(text, actualEnd),
                 lineStart, actualEnd + deltaLength)

toggleBlockPrefix(text, start, end, prefix) ==
  LET lineStart == lastIndexOf(text, NL, start - 1) + 1
      lineEnd   == indexOf(text, NL, end)
      actualEnd == IF lineEnd = -1 THEN Len(text) ELSE lineEnd
      before    == slice(text, 0, lineStart)
      selected  == slice(text, lineStart, actualEnd)
      after     == sliceFrom(text, actualEnd)
      lines     == split(selected, NL)
      prefixWithSpace == prefix \o <<" ">>
      hasPrefix(line) == startsWith(line, prefixWithSpace)
      nonBlank(line)  == trim(line) # <<>>
      allHavePrefix ==
        \A i \in 1..Len(lines) : hasPrefix(lines[i]) \/ trim(lines[i]) = <<>>
      newLines ==
        IF allHavePrefix
        THEN [i \in 1..Len(lines) |->
                IF hasPrefix(lines[i])
                THEN sliceFrom(lines[i], Len(prefixWithSpace)) ELSE lines[i]]
        ELSE [i \in 1..Len(lines) |->
                IF nonBlank(lines[i]) THEN prefixWithSpace \o lines[i] ELSE lines[i]]
      deltaLength ==
        IF allHavePrefix
        THEN (-Len(prefixWithSpace))
               * Cardinality({i \in 1..Len(lines) : hasPrefix(lines[i])})
        ELSE Len(prefixWithSpace)
               * Cardinality({i \in 1..Len(lines) : nonBlank(lines[i])})
  IN  WrapResult(before \o join(newLines, NL) \o after,
                 lineStart, actualEnd + deltaLength)

\* the regular expression class \w
isWordChar(c) ==
  \/ \E i \in 1..26 : c = LowerCase[i] \/ c = UpperCase[i]
  \/ c \in Digits
  \/ c = "_"

\* the backtick character (the lexer of TLA+ has no literal for it)
BT == "BACKTICK"

Fence == <<BT, BT, BT>>

\* the fence pattern test: three backticks, word characters, a newline
fencePattern(s) ==
  \E i \in 1..Len(s) :
    /\ i + 2 <= Len(s)
    /\ SubSeq(s, i, i + 2) = Fence
    /\ \E j \in (i + 3)..Len(s) :
         s[j] = NL /\ \A k \in (i + 3)..(j - 1) : isWordChar(s[k])

\* toggleCodeBlock leaving a selection that already sits between two fences
\* as it is
toggleCodeBlockDetecting(text, start, end, language) ==
  LET before     == slice(text, 0, start)
      selected   == slice(text, start, end)
      after      == sliceFrom(text, end)
      openFence  == Fence \o language \o <<NL>>
      closeFence == <<NL>> \o Fence
      hasOpenBefore == fencePattern(sliceFrom(before, -20))
      hasCloseAfter == startsWith(trimStart(after), Fence)
  IN  IF hasOpenBefore /\ hasCloseAfter
      THEN WrapResult(text, start, end)
      ELSE WrapResult(before \o openFence \o selected \o closeFence \o after,
                      start + Len(openFence), end + Len(openFence))

toggleCodeBlock(text, start, end, language) ==
  LET before     == slice(text, 0, start)
      selected   == slice(text, start, end)
      after      == sliceFrom(text, end)
      openFence  == Fence \o language \o <<NL>>
      closeFence == <<NL>> \o Fence
      hasOpenBefore == fencePattern(sliceFrom(before, -20))
      hasCloseAfter == startsWith(trimStart(after), Fence)
  IN  IF hasOpenBefore /\ hasCloseAfter
      THEN \* the detection branch is empty: it falls through to the wrap
           WrapResult(before \o openFence \o selected \o closeFence \o after,
                      start + Len(openFence), end + Len(openFence))
      ELSE WrapResult(before \o openFence \o selected \o closeFence \o after,
                      start + Len(openFence), end + Len(openFence))

LinkTextPlaceholder == <<"l", "i", "n", "k", " ", "t", "e", "x", "t">>

UrlPlaceholder == <<"u", "r", "l">>

\* insertMaskedLink placing the URL behind the raw selection, without the
\* length of the substituted link text
insertMaskedLinkRawLength(text, start, end, url) ==
  LET before   == slice(text, 0, start)
      selected == IF slice(text, start, end) # <<>>
                  THEN slice(text, start, end) ELSE LinkTextPlaceholder
      after    == sliceFrom(text, end)
      link     == <<"[">> \o selected \o <<"]", "(">> \o url \o <<")">>
      urlStart == start + (end - start) + 3
      urlEnd   == urlStart + Len(url)
  IN  WrapResult(before \o link \o after,
                 IF url = UrlPlaceholder THEN urlStart ELSE start,
                 IF url = UrlPlaceholder THEN urlEnd ELSE start + Len(link))

insertMaskedLink(text, start, end, url) ==
  LET before   == slice(text, 0, start)
      selected == IF slice(text, start, end) # <<>>
                  THEN slice(text, start, end) ELSE LinkTextPlaceholder
      after    == sliceFrom(text, end)
      link     == <<"[">> \o selected \o <<"]", "(">> \o url \o <<")">>
      urlStart == start + Len(selected) + 3
      urlEnd   == urlStart + Len(url)
  IN  WrapResult(before \o link \o after,
                 IF url = UrlPlaceholder THEN urlStart ELSE start,
                 IF url = UrlPlaceholder THEN urlEnd ELSE start + Len(link))

----------------------------------------------------------------------------
(* The editor: components/Editor applies a formatter to the textarea *)

\* the characters the editor buffer is drawn from
Alphabet == {"*", "a", ">", " ", NL}

BoundedTexts == UNION {[1..n -> Alphabet] : n \in 0..MaxLen}

HelloWorld == <<"h", "e", "l", "l", "o", " ", "w", "o", "r", "l", "d">>

\* a quote inside a quote, "> > a"
QuotedQuote == <<">", " ", ">", " ", "a">>

\* a selection that both is surrounded by "*" and itself starts and ends
\* with "*": the middle of a run of four
StarRun == <<"*", "*", "*", "*">>

\* a quoted line and a plain line, "> a" and "a"
QuotedAndPlain == <<">", " ", "a", NL, "a">>

\* the documented scenario, "hello world" with "hello" selected; a caret in
\* a line that carries the quote prefix twice; the middle of a run of stars;
\* a quoted and a plain line selected together
ScenarioInputs ==
  {[text |-> HelloWorld, start |-> 0, end |-> 5],
   [text |-> QuotedQuote, start |-> 0, end |-> 0],
   [text |-> StarRun, start |-> 1, end |-> 3],
   [text |-> QuotedAndPlain, start |-> 1, end |-> 5]}

\* the toolbar's symmetric tokens (bold, italic)
Tokens == {<<"*">>, <<"*", "*">>}

AsymmetricTokens ==
  {[open |-> <<">">>, close |-> <<"*">>],
   [open |-> <<"*", "*">>, close |-> <<">">>]}

\* block prefixes: the quote button's, a list marker, and the empty prefix
Prefixes == {<<">">>, <<"*">>, <<>>}

Languages == {<<>>, <<"a">>}

Insertions == {<<"a">>, <<"*", ">">>}

Urls == {UrlPlaceholder, <<"a">>}

\* HTMLTextAreaElement.setSelectionRange: offsets past the end point at the
\* end; if end is not after start both are placed at end.
setSelectionRange(value, start, end) ==
  LET s == Min(Max(start, 0), Len(value))
      e == Min(Max(end, 0), Len(value))
  IN  IF e <= s THEN [start |-> e, end |-> e] ELSE [start |-> s, end |-> e]

\* One formatter call: the input it was given and the WrapResult it returned.
Call(op, arg, arg2, r) ==
  [op |-> op, arg |-> arg, arg2 |-> arg2,
   text |-> content, start |-> selection.start, end |-> selection.end,
   out |-> r]

\* applyFormat: read the selection, run the formatter on the content, store
\* the text and set the textarea's selection to the returned one.  The same
\* button is pressed at most MaxPresses times in a row.
applyFormat(op, arg, arg2, r) ==
  /\ Len(hist) < MaxPresses
  /\ hist # <<>> =>
       /\ hist[Len(hist)].op = op
       /\ hist[Len(hist)].arg = arg
       /\ hist[Len(hist)].arg2 = arg2
  /\ content' = r.text
  /\ selection' = setSelectionRange(r.text, r.selection.start, r.selection.end)
  /\ hist' = Append(hist, Call(op, arg, arg2, r))
  /\ UNCHANGED <<storeVars, registryVars, rendererVars, sanitizerVars, clock, timeVars, parserVars>>

HandleToggleWrap ==
  \E token \in Tokens :
    applyFormat("toggleWrap", token, <<>>,
                toggleWrap(content, selection.start, selection.end, token))

HandleToggleWrapAsymmetric ==
  \E t \in AsymmetricTokens :
    applyFormat("toggleWrapAsymmetric", t.open, t.close,
                toggleWrapAsymmetric(content, selection.start, selection.end,
                                     t.open, t.close))

HandleToggleBlockPrefix ==
  \E prefix \in Prefixes :
    applyFormat("toggleBlockPrefix", prefix, <<>>,
                toggleBlockPrefix(content, selection.start, selection.end, prefix))

HandleToggleCodeBlock ==
  \E language \in Languages :
    applyFormat("toggleCodeBlock", language, <<>>,
                toggleCodeBlock(content, selection.start, selection.end, language))

HandleInsertAt ==
  \E toInsert \in Insertions :
    applyFormat("insertAt", toInsert, <<>>,
                insertAt(content, selection.start, toInsert))

HandleInsertMaskedLink ==
  \E url \in Urls :
    applyFormat("insertMaskedLink", url, <<>>,
                insertMaskedLink(content, selection.start, selection.end, url))

InitEditor ==
  /\ IdleSanitizer /\ IdleTime /\ IdleParser /\ IdleRenderer /\ IdleStore /\ IdleRegistry /\ clock = 0
  /\ hist = <<>>
  /\ \/ \E i \in ScenarioInputs :
          /\ content = i.text
          /\ selection = [start |-> i.start, end |-> i.end]
     \/ /\ content \in BoundedTexts
        /\ \E s \in 0..MaxLen, e \in 0..MaxLen :
             /\ s <= e /\ e <= Len(content)
             /\ selection = [start |-> s, end |-> e]

NextEditor ==
  \/ HandleToggleWrap
  \/ HandleToggleWrapAsymmetric
  \/ HandleToggleBlockPrefix
  \/ HandleToggleCodeBlock
  \/ HandleInsertAt
  \/ HandleInsertMaskedLink

SpecEditor == InitEditor /\ [][NextEditor]_vars

----------------------------------------------------------------------------
(* Claims about the selection transform engine *)

\* the token k occurs in t at the 0-based offset i
OccursAt(t, i, k) ==
  /\ i >= 0
  /\ i + Len(k) <= Len(t)
  /\ \A j \in 1..Len(k) : t[i + j] = k[j]

\* t without the n characters that start at the 0-based offset a
Without(t, a, n) == [i \in 1..(Len(t) - n) |-> IF i <= a THEN t[i] ELSE t[i + n]]

\* t with k inserted at the 0-based offset a
WithInserted(t, a, k) ==
  [i \in 1..(Len(t) + Len(k)) |->
     IF i <= a THEN t[i]
     ELSE IF i <= a + Len(k) THEN k[i - a] ELSE t[i - Len(k)]]

\* which of the three cases of the toggleWrap contract applies, in priority order
WrapCase(t, s, e, k) ==
  IF OccursAt(t, s - Len(k), k) /\ OccursAt(t, e, k) THEN "a"
  ELSE IF e - s >= 2 * Len(k) /\ OccursAt(t, s, k) /\ OccursAt(t, e - Len(k), k)
  THEN "b"
  ELSE "c"

\* the three-case reference of the toggleWrap contract, by offsets
RefToggleWrap(t, s, e, k) ==
  LET n == Len(k)
  IN  CASE WrapCase(t, s, e, k) = "a" ->
             WrapResult(Without(Without(t, e, n), s - n, n), s - n, e - n)
        [] WrapCase(t, s, e, k) = "b" ->
             WrapResult(Without(Without(t, e - n, n), s, n), s, e - 2 * n)
        [] OTHER ->
             WrapResult(WithInserted(WithInserted(t, e, k), s, k), s + n, e + n)

\* the call hist[i + 1] was made on the text and selection hist[i] returned
AppliedToResult(i) ==
  /\ hist[i + 1].op = hist[i].op
  /\ hist[i + 1].arg = hist[i].arg
  /\ hist[i + 1].text = hist[i].out.text
  /\ hist[i + 1].start = hist[i].out.selection.start
  /\ hist[i + 1].end = hist[i].out.selection.end

\* hist[i + 1] returned the text and the selection hist[i] was given
Restored(i) ==
  hist[i + 1].out = WrapResult(hist[i].text, hist[i].start, hist[i].end)

\* C1 as stated: toggleWrap applied twice (the second time to the returned
\* text and selection) restores the original text and selection, whichever
\* case the first application took.
C1_RoundTripAnyCase ==
  \A i \in 1..(Len(hist) - 1) :
    (hist[i].op = "toggleWrap" /\ AppliedToResult(i)) => Restored(i)

\* C1 amended: when the first application wraps (case c), the second
\* application restores the original text and the original selection.
C1_WrapThenToggleRestores ==
  \A i \in 1..(Len(hist) - 1) :
    ( /\ hist[i].op = "toggleWrap"
      /\ AppliedToResult(i)
      /\ WrapCase(hist[i].text, hist[i].start, hist[i].end, hist[i].arg) = "c" )
    => Restored(i)

\* a non-empty selection was wrapped and toggled again
C1_Witness ==
  /\ Len(hist) = 2
  /\ hist[1].op = "toggleWrap"
  /\ hist[1].start < hist[1].end
  /\ WrapCase(hist[1].text, hist[1].start, hist[1].end, hist[1].arg) = "c"
  /\ hist[2].out.text = hist[1].text

\* C2: toggleWrap returns what the three-case reference returns; in the wrap
\* case the originally selected text is the selected text of the result; and
\* toggleWrap("hello world", 0, 5, "**") = ("**hello** world", 2..7).
C2_ToggleWrapIsReference ==
  \A i \in 1..Len(hist) :
    hist[i].op = "toggleWrap" =>
      LET c == hist[i]
      IN  /\ c.out = RefToggleWrap(c.text, c.start, c.end, c.arg)
          /\ WrapCase(c.text, c.start, c.end, c.arg) = "c" =>
               slice(c.out.text, c.out.selection.start, c.out.selection.end)
                 = slice(c.text, c.start, c.end)
          /\ (c.text = HelloWorld /\ c.start = 0 /\ c.end = 5 /\ c.arg = <<"*", "*">>)
               => c.out = WrapResult(<<"*", "*", "h", "e", "l", "l", "o", "*", "*",
                                       " ", "w", "o", "r", "l", "d">>, 2, 7)

\* the scenario call has been made, and so has an unwrap of each kind
C2_Witness ==
  /\ Len(hist) = 2
  /\ hist[1].text = HelloWorld
  /\ hist[1].arg = <<"*", "*">>
  /\ hist[1].out.selection = [start |-> 2, end |-> 7]
  /\ WrapCase(hist[2].text, hist[2].start, hist[2].end, hist[2].arg) = "a"

\* the position just after the last newline before the offset s (0 if none)
RefLineStart(t, s) ==
  LET K == {k \in 1..s : t[k] = NL} IN IF K = {} THEN 0 ELSE SetMax(K)

\* the offset of the first newline at or after e (the length if none)
RefLineEnd(t, e) ==
  LET K == {k \in e..(Len(t) - 1) : t[k + 1] = NL}
  IN  IF K = {} THEN Len(t) ELSE SetMin(K)

\* the lines that cover the selection s..e
RefLines(t, s, e) == split(slice(t, RefLineStart(t, s), RefLineEnd(t, e)), NL)

\* some line covering the selection is not blank and lacks the prefix, so the
\* prefix is to be added
PrefixToBeAdded(t, s, e, prefix) ==
  \E i \in 1..Len(RefLines(t, s, e)) :
    LET line == RefLines(t, s, e)[i]
    IN  /\ \E j \in 1..Len(line) : ~isWhiteSpace(line[j])
        /\ ~startsWith(line, prefix \o <<" ">>)

\* the prefix has a character that is not white space, and no newline
VisiblePrefix(prefix) ==
  /\ \E j \in 1..Len(prefix) : ~isWhiteSpace(prefix[j])
  /\ \A j \in 1..Len(prefix) : prefix[j] # NL

\* C3 as stated: toggleBlockPrefix applied twice with the same prefix (the
\* second time to the result) returns the original text.
C3_BlockPrefixTwiceRestores ==
  \A i \in 1..(Len(hist) - 1) :
    (hist[i].op = "toggleBlockPrefix" /\ hist[i + 1].op = "toggleBlockPrefix")
    => hist[i + 1].out.text = hist[i].text

\* C3 amended: for a prefix with a visible character and no newline, when
\* some line covering the selection is not blank and lacks the prefix (the
\* first application adds it), applying toggleBlockPrefix again to the
\* returned text and selection returns the original text.
C3_AddThenToggleRestores ==
  \A i \in 1..(Len(hist) - 1) :
    ( /\ hist[i].op = "toggleBlockPrefix"
      /\ AppliedToResult(i)
      /\ VisiblePrefix(hist[i].arg)
      /\ PrefixToBeAdded(hist[i].text, hist[i].start, hist[i].end, hist[i].arg) )
    => hist[i + 1].out.text = hist[i].text

\* a two-line region with a blank line got the prefix and lost it again
C3_Witness ==
  /\ Len(hist) = 2
  /\ hist[1].op = "toggleBlockPrefix"
  /\ hist[1].arg = <<">">>
  /\ hist[1].text = <<"a", NL, " ">>
  /\ hist[1].out.text = <<">", " ", "a", NL, " ">>
  /\ hist[2].out.text = hist[1].text

\* C4: every formatter call made with 0 <= start <= end <= len(text) returns
\* a WrapResult with 0 <= selection.start <= selection.end <= len(result.text).
C4_ResultSelectionInBounds ==
  \A i \in 1..Len(hist) :
    (0 <= hist[i].start /\ hist[i].start <= hist[i].end
       /\ hist[i].end <= Len(hist[i].text))
    => /\ 0 <= hist[i].out.selection.start
       /\ hist[i].out.selection.start <= hist[i].out.selection.end
       /\ hist[i].out.selection.end <= Len(hist[i].out.text)

----------------------------------------------------------------------------
(* The sanitizer: lib/sanitize.  The HTML is held as the forest of nodes    *)
(* the DOM parser makes of it; an attribute is a name and a value.          *)

ALLOWED_TAGS ==
  {"a", "strong", "b", "em", "i", "s", "del", "u", "code", "pre", "span",
   "ul", "ol", "li", "blockquote", "p", "br",
   "h1", "h2", "h3", "h4", "h5", "h6"}

ALLOWED_ATTR ==
  {<<"c", "l", "a", "s", "s">>,
   <<"h", "r", "e", "f">>,
   <<"r", "e", "l">>,
   <<"t", "a", "r", "g", "e", "t">>,
   <<"d", "a", "t", "a", "-", "e", "p", "o", "c", "h">>,
   <<"d", "a", "t", "a", "-", "s", "t", "y", "l", "e">>,
   <<"d", "a", "t", "a", "-", "l", "a", "n", "g", "u", "a", "g", "e">>,
   <<"t", "i", "t", "l", "e">>,
   <<"t", "a", "b", "i", "n", "d", "e", "x">>,
   <<"r", "o", "l", "e">>,
   <<"a", "r", "i", "a", "-", "l", "a", "b", "e", "l">>}

FORBID_TAGS == {"script", "style", "iframe", "object", "embed", "form", "input", "img"}

FORBID_ATTR ==
  {<<"o", "n", "e", "r", "r", "o", "r">>,
   <<"o", "n", "c", "l", "i", "c", "k">>,
   <<"o", "n", "l", "o", "a", "d">>,
   <<"o", "n", "m", "o", "u", "s", "e", "o", "v", "e", "r">>,
   <<"o", "n", "f", "o", "c", "u", "s">>,
   <<"o", "n", "b", "l", "u", "r">>}

ALLOW_DATA_ATTR == FALSE

ALLOW_UNKNOWN_PROTOCOLS == FALSE

\* Options the sanitize call does not set stay at the library's defaults:
\* aria-* attributes are let through, the content of a removed element is
\* kept unless the element is one whose content is never kept, and the
\* values of the attributes below are not checked against the URI pattern.
ALLOW_ARIA_ATTR == TRUE

KEEP_CONTENT == TRUE

FORBID_CONTENTS == {"script", "style", "iframe", "noscript", "template", "svg", "math"}

URI_SAFE_ATTRIBUTES ==
  {<<"a", "l", "t">>,
   <<"c", "l", "a", "s", "s">>,
   <<"f", "o", "r">>,
   <<"i", "d">>,
   <<"l", "a", "b", "e", "l">>,
   <<"n", "a", "m", "e">>,
   <<"p", "a", "t", "t", "e", "r", "n">>,
   <<"p", "l", "a", "c", "e", "h", "o", "l", "d", "e", "r">>,
   <<"r", "o", "l", "e">>,
   <<"s", "u", "m", "m", "a", "r", "y">>,
   <<"t", "i", "t", "l", "e">>,
   <<"v", "a", "l", "u", "e">>,
   <<"s", "t", "y", "l", "e">>,
   <<"x", "m", "l", "n", "s">>}

\* a regular expression /^(?:w1|w2|...):/i tested on s
testSchemePrefix(s, words) ==
  \E w \in words :
    /\ Len(s) >= Len(w) + 1
    /\ \A i \in 1..Len(w) : toLowerCase(s[i]) = w[i]
    /\ s[Len(w) + 1] = ":"

\* ALLOWED_URI_REGEXP.test(s), the pattern /^(?:https?|mailto):/i
ALLOWED_URI_REGEXP(s) ==
  testSchemePrefix(s, {<<"h", "t", "t", "p">>,
                       <<"h", "t", "t", "p", "s">>,
                       <<"m", "a", "i", "l", "t", "o">>})

\* /^(?:javascript|data|vbscript):/i.test(s)
testBlockedScheme(s) ==
  testSchemePrefix(s, {<<"j", "a", "v", "a", "s", "c", "r", "i", "p", "t">>,
                       <<"d", "a", "t", "a">>,
                       <<"v", "b", "s", "c", "r", "i", "p", "t">>})

HttpsPrefix == <<"h", "t", "t", "p", "s", ":", "/", "/">>

\* sanitizeUrl testing the blocked schemes without the i flag
sanitizeUrlCaseSensitive(u) ==
  LET trimmed == trim(u)
      blocked == \E w \in {<<"j", "a", "v", "a", "s", "c", "r", "i", "p", "t">>,
                            <<"d", "a", "t", "a">>,
                            <<"v", "b", "s", "c", "r", "i", "p", "t">>} :
                   startsWith(trimmed, w \o <<":">>)
  IN  IF blocked THEN <<>>
      ELSE IF \/ ALLOWED_URI_REGEXP(trimmed)
              \/ startsWith(trimmed, <<"/">>)
              \/ startsWith(trimmed, <<"#">>)
      THEN trimmed
      ELSE IF ~includes(trimmed, <<":", "/", "/">>) THEN HttpsPrefix \o trimmed
      ELSE <<>>

\* sanitizeUrl returning an accepted URL as it came, white space included
sanitizeUrlUntrimmed(u) ==
  LET trimmed == trim(u)
  IN  IF testBlockedScheme(trimmed) THEN <<>>
      ELSE IF \/ ALLOWED_URI_REGEXP(trimmed)
              \/ startsWith(trimmed, <<"/">>)
              \/ startsWith(trimmed, <<"#">>)
      THEN u
      ELSE IF ~includes(trimmed, <<":", "/", "/">>) THEN HttpsPrefix \o trimmed
      ELSE <<>>

sanitizeUrl(u) ==
  LET trimmed == trim(u)
  IN  IF testBlockedScheme(trimmed) THEN <<>>
      ELSE IF \/ ALLOWED_URI_REGEXP(trimmed)
              \/ startsWith(trimmed, <<"/">>)
              \/ startsWith(trimmed, <<"#">>)
      THEN trimmed
      ELSE IF ~includes(trimmed, <<":", "/", "/">>) THEN HttpsPrefix \o trimmed
      ELSE <<>>

\* the library's patterns for data-* and aria-* attribute names
isDataAttr(name) ==
  /\ startsWith(name, <<"d", "a", "t", "a", "-">>)
  /\ Len(name) > 5
  /\ \A i \in 6..Len(name) : isWordChar(name[i]) \/ name[i] \in {"-", "."}

isAriaAttr(name) ==
  /\ startsWith(name, <<"a", "r", "i", "a", "-">>)
  /\ Len(name) > 5
  /\ \A i \in 6..Len(name) : isWordChar(name[i]) \/ name[i] = "-"

\* the value with white space taken out, as the library tests it
withoutWhiteSpace(value) == SelectSeq(value, LAMBDA c : ~isWhiteSpace(c))

\* whether the library keeps the attribute under this configuration
isValidAttribute(lcTag, lcName, value) ==
  IF ALLOW_DATA_ATTR /\ lcName \notin FORBID_ATTR /\ isDataAttr(lcName) THEN TRUE
  ELSE IF ALLOW_ARIA_ATTR /\ isAriaAttr(lcName) THEN TRUE
  ELSE IF lcName \notin ALLOWED_ATTR \/ lcName \in FORBID_ATTR THEN FALSE
  ELSE IF lcName \in URI_SAFE_ATTRIBUTES THEN TRUE
  ELSE IF ALLOWED_URI_REGEXP(withoutWhiteSpace(value)) THEN TRUE
  ELSE IF ALLOW_UNKNOWN_PROTOCOLS /\ ~testBlockedScheme(withoutWhiteSpace(value))
  THEN TRUE
  ELSE value = <<>>

TextNode == [kind |-> "text", tag |-> "#text", attrs |-> {}, children |-> <<>>]

Element(tag, attrs, children) ==
  [kind |-> "element", tag |-> tag, attrs |-> attrs, children |-> children]

\* DOMPurify.sanitize under the configuration: a text node is kept; an
\* element whose tag is not allowed, or is forbidden, is removed and its
\* content kept in its place unless its content is never kept; an element
\* that stays keeps the attributes that are valid.
RECURSIVE sanitizeNodes(_)
sanitizeNodes(nodes) ==
  IF nodes = <<>> THEN <<>>
  ELSE
    LET n == Head(nodes)
    IN  IF n.kind = "text" THEN <<n>> \o sanitizeNodes(Tail(nodes))
        ELSE IF n.tag \notin ALLOWED_TAGS \/ n.tag \in FORBID_TAGS
        THEN (IF KEEP_CONTENT /\ n.tag \notin FORBID_CONTENTS
              THEN sanitizeNodes(n.children) ELSE <<>>)
             \o sanitizeNodes(Tail(nodes))
        ELSE <<Element(n.tag,
                       {a \in n.attrs : isValidAttribute(n.tag, a.name, a.value)},
                       sanitizeNodes(n.children))>>
             \o sanitizeNodes(Tail(nodes))

sanitizeHtml(dirtyHtml) == sanitizeNodes(dirtyHtml)

----------------------------------------------------------------------------
(* Calls of the sanitizer *)

\* how many pieces a URL handed to sanitizeUrl is made of
MaxUrlPieces == 3

\* sanitizeUrl is applied to the URL and then to its own result
MaxUrlCalls == 2

UrlPieces ==
  {<<"j", "a", "v", "a", "s", "c", "r", "i", "p", "t", ":">>,
   <<"J", "a", "v", "a", "S", "c", "r", "i", "p", "t", ":">>,
   <<"d", "a", "t", "a", ":">>,
   <<"v", "b", "s", "c", "r", "i", "p", "t", ":">>,
   <<"h", "t", "t", "p", ":">>,
   <<"h", "t", "t", "p", "s", ":">>,
   <<"H", "t", "t", "p", "s", ":">>,
   <<"m", "a", "i", "l", "t", "o", ":">>,
   <<"/">>, <<"#">>, <<":", "/", "/">>, <<" ">>, <<"a">>, <<"f", "t", "p", ":">>}

RECURSIVE Concats(_, _)
Concats(pieces, n) ==
  IF n = 0 THEN {<<>>}
  ELSE Concats(pieces, n - 1)
         \cup {p \o c : p \in pieces, c \in Concats(pieces, n - 1)}

JsAlert == <<"j", "a", "v", "a", "s", "c", "r", "i", "p", "t", ":", "a", "l", "e", "r", "t", "(", "1", ")">>

ExampleCom == <<"e", "x", "a", "m", "p", "l", "e", ".", "c", "o", "m">>

SlashLocal == <<"/", "l", "o", "c", "a", "l">>

HashFrag == <<"#", "f", "r", "a", "g">>

UrlInputs == Concats(UrlPieces, MaxUrlPieces) \cup {JsAlert, ExampleCom, SlashLocal, HashFrag}

Attr(name, value) == [name |-> name, value |-> value]

Href == <<"h", "r", "e", "f">>

AttrPool ==
  {Attr(<<"o", "n", "e", "r", "r", "o", "r">>, <<"a">>),
   Attr(<<"o", "n", "c", "l", "i", "c", "k">>, <<"a">>),
   Attr(<<"o", "n", "w", "h", "e", "e", "l">>, <<"a">>),
   Attr(<<"c", "l", "a", "s", "s">>, <<"a">>),
   Attr(<<"s", "t", "y", "l", "e">>, <<"a">>),
   Attr(<<"a", "r", "i", "a", "-", "h", "i", "d", "d", "e", "n">>, <<"a">>),
   Attr(<<"a", "r", "i", "a", "-", "l", "a", "b", "e", "l">>, <<"a">>),
   Attr(<<"d", "a", "t", "a", "-", "e", "p", "o", "c", "h">>, <<"1">>),
   Attr(<<"d", "a", "t", "a", "-", "x">>, <<"a">>),
   Attr(<<"i", "d">>, <<"a">>),
   Attr(<<"t", "i", "t", "l", "e">>, <<"a">>),
   Attr(<<"t", "a", "b", "i", "n", "d", "e", "x">>, <<"0">>)}

InnerAttrPool ==
  {Attr(<<"o", "n", "e", "r", "r", "o", "r">>, <<"a">>),
   Attr(<<"a", "r", "i", "a", "-", "h", "i", "d", "d", "e", "n">>, <<"a">>),
   Attr(<<"c", "l", "a", "s", "s">>, <<"a">>)}

TagPool == {"a", "span", "p", "div", "script", "style", "iframe", "img", "form"}

AtMostOne(S) == {{}} \cup {{x} : x \in S}

\* an anchor whose href is the URL u
LinkDoc(u) == <<Element("a", {Attr(Href, u)}, <<TextNode>>)>>

\* an element with at most one attribute and at most one child
TagDocs ==
  {<<Element(t, A, kids)>> :
     t \in TagPool, A \in AtMostOne(AttrPool),
     kids \in {<<>>, <<TextNode>>}
              \cup {<<Element(t2, A2, <<>>)>> :
                      t2 \in TagPool, A2 \in AtMostOne(InnerAttrPool)}}

InitSanitizer ==
  /\ IdleEditor /\ IdleTime /\ IdleParser /\ IdleRenderer /\ IdleStore /\ IdleRegistry /\ clock = 0
  /\ clean = <<>>
  /\ urlOuts = <<>>
  /\ \/ urlIn \in UrlInputs /\ dirty = LinkDoc(urlIn)
     \/ urlIn = <<>> /\ dirty \in TagDocs

SanitizeHtml ==
  /\ clean = <<>>
  /\ clean' = <<sanitizeHtml(dirty)>>
  /\ UNCHANGED <<storeVars, registryVars, rendererVars, dirty, urlIn, urlOuts, editorVars, clock, timeVars, parserVars>>

SanitizeUrl ==
  /\ Len(urlOuts) < MaxUrlCalls
  /\ urlOuts' = Append(urlOuts,
                       sanitizeUrl(IF urlOuts = <<>> THEN urlIn
                                   ELSE urlOuts[Len(urlOuts)]))
  /\ UNCHANGED <<storeVars, registryVars, rendererVars, dirty, clean, urlIn, editorVars, clock, timeVars, parserVars>>

NextSanitizer == SanitizeHtml \/ SanitizeUrl

SpecSanitizer == InitSanitizer /\ [][NextSanitizer]_vars

----------------------------------------------------------------------------
(* Claims about the sanitizer *)

\* every element of a forest, at any depth
RECURSIVE ElementsOf(_)
ElementsOf(nodes) ==
  IF nodes = <<>> THEN {}
  ELSE (IF Head(nodes).kind = "element" THEN {Head(nodes)} ELSE {})
         \cup ElementsOf(Head(nodes).children)
         \cup ElementsOf(Tail(nodes))

ForbiddenElements ==
  {"script", "style", "iframe", "object", "embed", "form", "input", "img"}

IsEventHandlerName(name) == startsWith(name, <<"o", "n">>)

\* C5: the output of sanitizeHtml holds no forbidden element and no on*
\* attribute: only tags of ALLOWED_TAGS and attributes of ALLOWED_ATTR
\* remain, and neither allowlist holds a forbidden tag or an on* attribute.
C5_OnlyAllowlistedRemains ==
  /\ ALLOWED_TAGS \cap ForbiddenElements = {}
  /\ \A name \in ALLOWED_ATTR : ~IsEventHandlerName(name)
  /\ clean # <<>> =>
       \A e \in ElementsOf(clean[1]) :
         /\ e.tag \notin ForbiddenElements
         /\ e.tag \in ALLOWED_TAGS
         /\ \A a \in e.attrs :
              ~IsEventHandlerName(a.name) /\ a.name \in ALLOWED_ATTR

\* the first segment of the claim alone: no forbidden element and no on*
\* attribute is left in the output
C5_NoForbiddenOutput ==
  clean # <<>> =>
    \A e \in ElementsOf(clean[1]) :
      /\ e.tag \notin ForbiddenElements
      /\ \A a \in e.attrs : ~IsEventHandlerName(a.name)

\* the input without the white space at its two ends
RefTrim(u) ==
  LET K == {k \in 1..Len(u) : ~isWhiteSpace(u[k])}
  IN  IF K = {} THEN <<>> ELSE SubSeq(u, SetMin(K), SetMax(K))

\* t begins with one of the schemes and a colon, whatever the case
HasScheme(t, schemes) ==
  \E k \in 1..Len(t) :
    /\ t[k] = ":"
    /\ \A j \in 1..(k - 1) : t[j] # ":"
    /\ [j \in 1..(k - 1) |-> toLowerCase(t[j])] \in schemes

\* the decision procedure of the sanitizeUrl contract
RefSanitizeUrl(u) ==
  LET t == RefTrim(u)
  IN  IF HasScheme(t, {<<"j", "a", "v", "a", "s", "c", "r", "i", "p", "t">>,
                       <<"d", "a", "t", "a">>,
                       <<"v", "b", "s", "c", "r", "i", "p", "t">>})
      THEN <<>>
      ELSE IF \/ HasScheme(t, {<<"h", "t", "t", "p">>,
                               <<"h", "t", "t", "p", "s">>,
                               <<"m", "a", "i", "l", "t", "o">>})
              \/ (t # <<>> /\ t[1] \in {"/", "#"})
      THEN t
      ELSE IF ~\E i \in 1..(Len(t) - 2) : t[i] = ":" /\ t[i + 1] = "/" /\ t[i + 2] = "/"
      THEN HttpsPrefix \o t
      ELSE <<>>

\* what the call number i of sanitizeUrl was given
UrlCallInput(i) == IF i = 1 THEN urlIn ELSE urlOuts[i - 1]

\* C6: sanitizeUrl follows the decision procedure on the trimmed input, and
\* sanitizeUrl("javascript:alert(1)") = "", sanitizeUrl("example.com") =
\* "https://example.com", sanitizeUrl("/local") = "/local".
C6_SanitizeUrlDecision ==
  \A i \in 1..Len(urlOuts) :
    /\ urlOuts[i] = RefSanitizeUrl(UrlCallInput(i))
    /\ UrlCallInput(i) = JsAlert => urlOuts[i] = <<>>
    /\ UrlCallInput(i) = ExampleCom =>
         urlOuts[i] = <<"h", "t", "t", "p", "s", ":", "/", "/", "e", "x", "a", "m", "p", "l", "e", ".", "c", "o", "m">>
    /\ UrlCallInput(i) = SlashLocal => urlOuts[i] = SlashLocal

\* sanitizeUrl("example.com") has been called
C6_Witness ==
  /\ urlIn = ExampleCom
  /\ Len(urlOuts) >= 1
  /\ urlOuts[1] = HttpsPrefix \o ExampleCom

\* the anchor of the output still carries the href it was given
HrefKept ==
  \E e \in ElementsOf(clean[1]) :
    \E a \in e.attrs : a.name = Href /\ a.value = urlIn

\* C7: an href with value u survives sanitizeHtml exactly when sanitizeUrl
\* accepts u, that is returns it unchanged.
C7_HrefPolicyIsSanitizeUrl ==
  (clean # <<>> /\ urlOuts # <<>> /\ dirty = LinkDoc(urlIn))
  => (HrefKept <=> urlOuts[1] = urlIn)

----------------------------------------------------------------------------
(* Timestamp formatting: formatTimestamp and formatRelativeTime of the       *)
(* renderer, formatTimestampPreview and formatRelativeTime of the time       *)
(* library.  Date.now() is the variable clock, kept in whole seconds, and an *)
(* instant new Date(epoch * 1000) is kept as its epoch in seconds.           *)

MaxMinutes == 1   \* minutes the clock may advance
MaxCalls == 2     \* formatter calls in one behaviour

abs(n) == IF n < 0 THEN -n ELSE n

\* the rungs of the ladder; the last threshold is Infinity
units ==
  << [finite |-> TRUE,  threshold |-> 60,                singular |-> "second", plural |-> "seconds"],
     [finite |-> TRUE,  threshold |-> 60 * 60,           singular |-> "minute", plural |-> "minutes"],
     [finite |-> TRUE,  threshold |-> 60 * 60 * 24,      singular |-> "hour",   plural |-> "hours"],
     [finite |-> TRUE,  threshold |-> 60 * 60 * 24 * 30, singular |-> "day",    plural |-> "days"],
     [finite |-> TRUE,  threshold |-> 60 * 60 * 24 * 365, singular |-> "month", plural |-> "months"],
     [finite |-> FALSE, threshold |-> 0,                 singular |-> "year",   plural |-> "years"] >>

\* absDiff < threshold
below(absDiff, rung) == ~rung.finite \/ absDiff < rung.threshold

\* formatRelativeTime comparing with <= where the code compares with <
formatRelativeTimeInclusive(epoch) ==
  LET now == clock
      diff == epoch - now
      absDiff == abs(diff)
      hits == {i \in 1..Len(units) : ~units[i].finite \/ absDiff <= units[i].threshold}
      i == SetMin(hits)
      prevThreshold == IF i > 1 THEN units[i - 1].threshold ELSE 1
      value == IF hits = {} THEN absDiff ELSE absDiff \div prevThreshold
      unit == IF hits = {} THEN "seconds"
              ELSE IF value = 1 THEN units[i].singular ELSE units[i].plural
  IN  IF diff < 0 THEN ToString(value) \o " " \o unit \o " ago"
      ELSE IF diff > 0 THEN "in " \o ToString(value) \o " " \o unit
      ELSE "now"

\* formatRelativeTime of the renderer: the loop breaks at the first rung
\* that absDiff is below
formatRelativeTime(epoch) ==
  LET now == clock
      diff == epoch - now
      absDiff == abs(diff)
      hits == {i \in 1..Len(units) : below(absDiff, units[i])}
      i == SetMin(hits)
      prevThreshold == IF i > 1 THEN units[i - 1].threshold ELSE 1
      value == IF hits = {} THEN absDiff ELSE absDiff \div prevThreshold
      unit == IF hits = {} THEN "seconds"
              ELSE IF value = 1 THEN units[i].singular ELSE units[i].plural
  IN  IF diff < 0 THEN ToString(value) \o " " \o unit \o " ago"
      ELSE IF diff > 0 THEN "in " \o ToString(value) \o " " \o unit
      ELSE "now"

\* one branch of the if chain of the time library
relativeText(diff, n, singular, plural) ==
  LET unit == IF n = 1 THEN singular ELSE plural
  IN  IF diff < 0 THEN ToString(n) \o " " \o unit \o " ago"
      ELSE "in " \o ToString(n) \o " " \o unit

\* formatRelativeTime of the time library
timeFormatRelativeTime(epoch) ==
  LET now == clock
      diff == epoch - now
      absDiff == abs(diff)
  IN  IF absDiff < 60 THEN relativeText(diff, absDiff, "second", "seconds")
      ELSE IF absDiff < 3600 THEN relativeText(diff, absDiff \div 60, "minute", "minutes")
      ELSE IF absDiff < 86400 THEN relativeText(diff, absDiff \div 3600, "hour", "hours")
      ELSE IF absDiff < 2592000 THEN relativeText(diff, absDiff \div 86400, "day", "days")
      ELSE IF absDiff < 31536000
        THEN relativeText(diff, absDiff \div 2592000, "month", "months")
      ELSE relativeText(diff, absDiff \div 31536000, "year", "years")

\* date.toLocaleTimeString / toLocaleDateString / toLocaleString: the text
\* the runtime's locale gives for an instant and the requested fields
toLocale(epoch, method, options) ==
  [instant |-> epoch, method |-> method, options |-> options]

\* the switch shared by formatTimestamp and formatTimestampPreview, but for
\* the R case
localeCase(epoch, style) ==
  IF style = <<"t">> THEN toLocale(epoch, "toLocaleTimeString", {"hour", "minute"})
  ELSE IF style = <<"T">>
    THEN toLocale(epoch, "toLocaleTimeString", {"hour", "minute", "second"})
  ELSE IF style = <<"d">>
    THEN toLocale(epoch, "toLocaleDateString", {"month", "day", "year"})
  ELSE IF style = <<"D">>
    THEN toLocale(epoch, "toLocaleDateString", {"longmonth", "day", "year"})
  ELSE IF style = <<"f">>
    THEN toLocale(epoch, "toLocaleString", {"longmonth", "day", "year", "hour", "minute"})
  ELSE IF style = <<"F">>
    THEN toLocale(epoch, "toLocaleString",
                  {"weekday", "longmonth", "day", "year", "hour", "minute"})
  ELSE toLocale(epoch, "toLocaleString", {})

formatTimestamp(epoch, style) ==
  IF style = <<"R">> THEN formatRelativeTime(epoch) ELSE localeCase(epoch, style)

formatTimestampPreview(epoch, style) ==
  IF style = <<"R">> THEN timeFormatRelativeTime(epoch) ELSE localeCase(epoch, style)

(* The inputs: two clock readings a minute apart, epochs around them at the *)
(* rungs of the ladder, the seven styles and one unknown style.             *)
Clocks == {1699999940, 1700000000}

Deltas ==
  {0, 1, -1, 2, 59, -59, 60, -60, 61, 119, 120, -120, 3599, 3600, -3600, 7200,
   86399, 86400, -86400, 172800, 2591999, 2592000, -2592000, 5184000,
   31535999, 31536000, -31536000, 63072000, -63072000}

Epochs == {1700000000 + d : d \in Deltas}

Styles == {<<"t">>, <<"T">>, <<"d">>, <<"D">>, <<"f">>, <<"F">>, <<"R">>}

StyleInputs == Styles \cup {<<"x">>}

FormatterCall(fn, now, out) == [fn |-> fn, now |-> now, out |-> out]

InitTime ==
  /\ clock \in Clocks
  /\ epochIn \in Epochs
  /\ styleIn \in StyleInputs
  /\ outs = <<>>
  /\ IdleEditor /\ IdleSanitizer /\ IdleParser /\ IdleRenderer /\ IdleStore /\ IdleRegistry

\* a minute passes
Tick ==
  /\ clock + 60 <= SetMax(Clocks) + 60 * MaxMinutes
  /\ clock' = clock + 60
  /\ UNCHANGED <<storeVars, registryVars, rendererVars, editorVars, sanitizerVars, timeVars, parserVars>>

\* the renderer formats the timestamp
FormatTimestamp ==
  /\ Len(outs) < MaxCalls
  /\ outs' = Append(outs, FormatterCall("formatTimestamp", clock,
                                        formatTimestamp(epochIn, styleIn)))
  /\ UNCHANGED <<storeVars, registryVars, rendererVars, editorVars, sanitizerVars, clock, epochIn, styleIn, parserVars>>

\* the timestamp builder formats its preview
FormatTimestampPreview ==
  /\ Len(outs) < MaxCalls
  /\ outs' = Append(outs, FormatterCall("formatTimestampPreview", clock,
                                        formatTimestampPreview(epochIn, styleIn)))
  /\ UNCHANGED <<storeVars, registryVars, rendererVars, editorVars, sanitizerVars, clock, epochIn, styleIn, parserVars>>

NextTime == Tick \/ FormatTimestamp \/ FormatTimestampPreview

SpecTime == InitTime /\ [][NextTime]_vars

----------------------------------------------------------------------------
(* Claims about timestamp formatting *)

Ladder == <<60, 3600, 86400, 2592000, 31536000>>

UnitNames == <<"second", "minute", "hour", "day", "month", "year">>

\* the relative text of the ladder rule for diff = epoch - now
RefRelative(epoch, now) ==
  LET diff == epoch - now
      a == IF diff < 0 THEN 0 - diff ELSE diff
      \* the first rung whose threshold exceeds a
      r == 1 + Cardinality({k \in 1..Len(Ladder) : Ladder[k] <= a})
      n == IF r = 1 THEN a ELSE a \div Ladder[r - 1]
      unit == IF n = 1 THEN UnitNames[r] ELSE UnitNames[r] \o "s"
  IN  IF diff = 0 THEN "now"
      ELSE IF diff < 0 THEN ToString(n) \o " " \o unit \o " ago"
      ELSE "in " \o ToString(n) \o " " \o unit

\* C8: with style R the renderer's text follows the ladder rule for
\* diff = epoch - now, now being the clock reading of the call: first rung
\* above |diff|, magnitude floor(|diff| / previous threshold), plural unless
\* the magnitude is 1, "<n> <unit> ago" / "in <n> <unit>" / "now"; epoch
\* 1700000000 gives "now" at 1700000000 and "in 1 minute" at 1699999940.
C8_RelativeLadder ==
  styleIn = <<"R">> =>
    \A k \in 1..Len(outs) :
      outs[k].fn = "formatTimestamp" =>
        /\ outs[k].out = RefRelative(epochIn, outs[k].now)
        /\ (epochIn = 1700000000 /\ outs[k].now = 1700000000) => outs[k].out = "now"
        /\ (epochIn = 1700000000 /\ outs[k].now = 1699999940)
             => outs[k].out = "in 1 minute"

\* <t:1700000000:R> has been formatted at 1699999940
C8_Witness ==
  /\ styleIn = <<"R">>
  /\ epochIn = 1700000000
  /\ \E k \in 1..Len(outs) :
       /\ outs[k].fn = "formatTimestamp"
       /\ outs[k].now = 1699999940
       /\ outs[k].out = "in 1 minute"

\* C9: the formatter is a pure function of its inputs: two calls with the
\* same epoch and style return the same text whatever the ambient clock
\* reads at the time of the call.
C9_FormatterIsPure ==
  \A j, k \in 1..Len(outs) :
    outs[j].fn = outs[k].fn => outs[j].out = outs[k].out

----------------------------------------------------------------------------
(* The inline rule of timestampPlugin, on a StateInline object *)

MaxPayload == 3     \* longest payload drawn between "<t:" and ">"
MaxRuleCalls == 2   \* rule calls in one behaviour

DigitChars == <<"0", "1", "2", "3", "4", "5", "6", "7", "8", "9">>

digitValue(c) == (CHOOSE d \in 1..10 : DigitChars[d] = c) - 1

NaN == [nan |-> TRUE, value |-> 0]

Number(n) == [nan |-> FALSE, value |-> n]

isNaN(x) == x.nan

\* the value of a run of digits
RECURSIVE digitsValue(_, _)
digitsValue(ds, radix) ==
  IF ds = <<>> THEN 0
  ELSE digitsValue(SubSeq(ds, 1, Len(ds) - 1), radix) * radix + digitValue(ds[Len(ds)])

\* parseInt(str, radix) for radix <= 10: leading white space is skipped, a
\* sign is taken, then the longest run of digits; whatever follows the run
\* is ignored; NaN when the run is empty
parseInt(str, radix) ==
  LET t == trimStart(str)
      signed == Len(t) > 0 /\ t[1] \in {"+", "-"}
      sign == IF Len(t) > 0 /\ t[1] = "-" THEN -1 ELSE 1
      rest == IF signed THEN Tail(t) ELSE t
      isDigit(c) == c \in Digits /\ digitValue(c) < radix
      stops == {k \in 1..Len(rest) : ~isDigit(rest[k])}
      n == IF stops = {} THEN Len(rest) ELSE SetMin(stops) - 1
  IN  IF n = 0 THEN NaN ELSE Number(sign * digitsValue(SubSeq(rest, 1, n), radix))

RECURSIVE naturalToString(_)
naturalToString(n) ==
  IF n < 10 THEN <<DigitChars[n + 1]>>
  ELSE naturalToString(n \div 10) \o <<DigitChars[(n % 10) + 1]>>

\* String(n) for an integer
numberToString(n) == IF n < 0 THEN <<"-">> \o naturalToString(-n) ELSE naturalToString(n)

Token(type, tag, nesting) ==
  [type |-> type, tag |-> tag, nesting |-> nesting, markup |-> <<>>,
   attrs |-> <<>>, content |-> <<>>]

\* Token.attrSet(name, value) on a token that has no such attribute yet
attrSet(token, name, value) ==
  [token EXCEPT !.attrs = Append(@, <<name, value>>)]

\* Token.attrGet(name): <<>> stands for null
attrGet(token, name) ==
  LET K == {k \in 1..Len(token.attrs) : token.attrs[k][1] = name}
  IN  IF K = {} THEN <<>> ELSE token.attrs[SetMin(K)][2]

\* StateInline.push: the pending text becomes a text token first
push(state, token) ==
  LET text == [Token("text", "", 0) EXCEPT !.content = state.pending]
      flushed == IF state.pending = <<>> THEN state.tokens
                 ELSE Append(state.tokens, text)
  IN  [state EXCEPT !.pending = <<>>, !.tokens = Append(flushed, token)]

ClassAttr == <<"c", "l", "a", "s", "s">>
DataEpoch == <<"d", "a", "t", "a", "-", "e", "p", "o", "c", "h">>
DataStyle == <<"d", "a", "t", "a", "-", "s", "t", "y", "l", "e">>
DiscordTimestampClass == <<"d", "i", "s", "c", "o", "r", "d", "-", "t", "i", "m", "e", "s", "t", "a", "m", "p">>
TimestampOpen == <<"<", "t", ":">>

\* the rule registered as discord_timestamp: what it returns and the state
\* it leaves
timestampRule(state, silent) ==
  LET start == state.pos
      end == indexOf(state.src, ">", start + 3)
      inner == slice(state.src, start + 3, end)
      parts == split(inner, ":")
      epoch == parseInt(parts[1], 10)
      style == IF Len(parts) >= 2 /\ parts[2] # <<>> THEN parts[2] ELSE <<"f">>
      token == [attrSet(attrSet(attrSet(Token("discord_timestamp", "span", 0),
                                        ClassAttr, DiscordTimestampClass),
                                DataEpoch, numberToString(epoch.value)),
                        DataStyle, style)
                  EXCEPT !.markup = slice(state.src, start, end + 1),
                         !.content = formatTimestamp(epoch.value, style)]
      pushed == IF silent THEN state ELSE push(state, token)
  IN  IF slice(state.src, start, start + 3) # TimestampOpen
        THEN [ok |-> FALSE, state |-> state]
      ELSE IF end = -1 THEN [ok |-> FALSE, state |-> state]
      ELSE IF isNaN(epoch) THEN [ok |-> FALSE, state |-> state]
      ELSE [ok |-> TRUE, state |-> [pushed EXCEPT !.pos = end + 1]]

(* The inputs: some text, an opener, a payload, a closing bracket or none, *)
(* and some text behind; the rule is called at the start of the source or *)
(* at the opener.                                                         *)
PayloadChars == {"1", "x", ":", "R", " ", "-"}

Payloads == UNION {[1..n -> PayloadChars] : n \in 0..MaxPayload}

Openers == {TimestampOpen, <<"<", "t">>}

\* generateTimestampToken leaving the style out of every token
generateTimestampTokenNoStyle(epoch, style) ==
  TimestampOpen \o numberToString(epoch) \o <<">">>

\* generateTimestampToken of the time library; <<>> stands for no style
generateTimestampToken(epoch, style) ==
  IF style # <<>> /\ style # <<"f">>
  THEN TimestampOpen \o numberToString(epoch) \o <<":">> \o style \o <<">">>
  ELSE TimestampOpen \o numberToString(epoch) \o <<">">>

\* the epochs and the styles the timestamp builder makes tokens of
TokenEpochs == {0, 7, -1, 12, 1700000000, -86400}

TokenStyles == Styles \cup {<<>>}

GeneratedTokens ==
  {generateTimestampToken(epoch, style) : epoch \in TokenEpochs, style \in TokenStyles}

NowRelative == <<"<", "t", ":", "1", "7", "0", "0", "0", "0", "0", "0", "0", "0", ":", "R", ">">>

TwelveAbc == <<"<", "t", ":", "1", "2", "a", "b", "c", ">">>

\* a style segment that is a double quote
QuoteStyle == <<"<", "t", ":", "1", ":", "\"", ">">>

InlineSources ==
  {pre \o opener \o payload \o close \o post :
     pre \in {<<>>, <<"a">>}, opener \in Openers, payload \in Payloads,
     close \in {<<>>, <<">">>}, post \in {<<>>, <<"!", ">">>}}
  \cup {NowRelative, TwelveAbc, QuoteStyle} \cup GeneratedTokens

RuleCall(rule, silent, before, result) ==
  [rule |-> rule, silent |-> silent, before |-> before,
   after |-> result.state, ok |-> result.ok]

InitParser ==
  /\ clock = SetMax(Clocks)
  /\ ruleLog = <<>>
  /\ \E source \in InlineSources :
       \E at \in {0, 1} :
         \E last \in {Len(source) - 1, Len(source)} :
           /\ at < last
           /\ inline = [src |-> source, pos |-> at, posMax |-> last,
                        pending |-> slice(source, 0, at), tokens |-> <<>>]
  /\ IdleEditor /\ IdleSanitizer /\ IdleTime /\ IdleRenderer /\ IdleStore /\ IdleRegistry

\* the tokenizer calls the rule at the cursor, to skip (silent) or to parse
TimestampRule ==
  /\ Len(ruleLog) < MaxRuleCalls
  /\ inline.pos < inline.posMax
  /\ \E silent \in BOOLEAN :
       LET result == timestampRule(inline, silent)
       IN  /\ inline' = result.state
           /\ ruleLog' = Append(ruleLog, RuleCall("discord_timestamp", silent, inline, result))
  /\ UNCHANGED <<storeVars, registryVars, rendererVars, editorVars, sanitizerVars, clock, timeVars>>

\* the opening tag the renderer's template writes around three values
SpanOpen(epoch, style, title) ==
  <<"<", "s", "p", "a", "n", " ", "c", "l", "a", "s", "s", "=", "\"">>
    \o DiscordTimestampClass
    \o <<"\"", " ">> \o DataEpoch \o <<"=", "\"">> \o epoch
    \o <<"\"", " ">> \o DataStyle \o <<"=", "\"">> \o style
    \o <<"\"", " ", "t", "i", "t", "l", "e", "=", "\"">> \o title
    \o <<"\"", ">">>

\* md.renderer.rules.discord_timestamp: the values put into the template,
\* the opening tag they give and the text of the span
renderTimestamp(token) ==
  LET epoch == IF attrGet(token, DataEpoch) # <<>>
               THEN attrGet(token, DataEpoch) ELSE <<"0">>
      style == IF attrGet(token, DataStyle) # <<>>
               THEN attrGet(token, DataStyle) ELSE <<"f">>
      formatted == formatTimestamp(parseInt(epoch, 10).value, style)
  IN  [epoch |-> epoch, style |-> style, title |-> token.markup,
       open |-> SpanOpen(epoch, style, token.markup), formatted |-> formatted]

\* the renderer comes to the timestamp token the rule has pushed
RenderTimestamp ==
  /\ rendered = <<>>
  /\ \E k \in 1..Len(inline.tokens) :
       /\ inline.tokens[k].type = "discord_timestamp"
       /\ rendered' = <<renderTimestamp(inline.tokens[k])>>
  /\ UNCHANGED <<storeVars, registryVars, editorVars, sanitizerVars, clock, timeVars, parserVars,
                 ruler, tried, fence>>

NextParser == TimestampRule \/ RenderTimestamp

SpecParser == InitParser /\ [][NextParser]_vars

----------------------------------------------------------------------------
(* Claims about the timestamp rule *)

\* the text between the opener at the cursor and the first ">" behind it
PayloadOf(state) ==
  LET from == state.pos + 4
      K == {k \in from..Len(state.src) : state.src[k] = ">"}
  IN  SubSeq(state.src, from, SetMin(K) - 1)

OpensAt(state) ==
  /\ state.pos + 3 <= Len(state.src)
  /\ SubSeq(state.src, state.pos + 1, state.pos + 3) = <<"<", "t", ":">>

ClosesAhead(state) ==
  \E k \in (state.pos + 4)..Len(state.src) : state.src[k] = ">"

ColonsOf(p) == {k \in 1..Len(p) : p[k] = ":"}

FirstSegment(p) ==
  IF ColonsOf(p) = {} THEN p ELSE SubSeq(p, 1, SetMin(ColonsOf(p)) - 1)

\* what follows the first colon, up to the next colon
SecondSegment(p) == FirstSegment(SubSeq(p, SetMin(ColonsOf(p)) + 1, Len(p)))

\* an optional sign and then digits only, at least one
IsBase10Integer(seg) ==
  LET body == IF seg # <<>> /\ seg[1] \in {"-", "+"} THEN Tail(seg) ELSE seg
  IN  body # <<>> /\ \A k \in 1..Len(body) : body[k] \in Digits

\* C10: the timestamp rule matches only where the source has "<t:" at the
\* cursor, a ">" ahead and a base-10 integer as the first segment of the
\* payload; with "<t:" and ">" but a missing or non-numeric first segment it
\* does not match, pushes no token and leaves the cursor where it was; when
\* it matches, the style is the second segment, or f when there is none (an
\* empty second segment counted as none).
C10_TimestampRuleMatching ==
  \A k \in 1..Len(ruleLog) :
    LET call == ruleLog[k]
        before == call.before
        after == call.after
    IN  call.rule = "discord_timestamp" =>
          /\ call.ok =>
               /\ OpensAt(before)
               /\ ClosesAhead(before)
               /\ IsBase10Integer(FirstSegment(PayloadOf(before)))
          /\ (/\ OpensAt(before)
              /\ ClosesAhead(before)
              /\ ~IsBase10Integer(FirstSegment(PayloadOf(before))))
             => (~call.ok /\ after.tokens = before.tokens /\ after.pos = before.pos)
          /\ (call.ok /\ ~call.silent) =>
               LET payload == PayloadOf(before)
                   given == ColonsOf(payload) # {} /\ SecondSegment(payload) # <<>>
               IN  attrGet(after.tokens[Len(after.tokens)], DataStyle)
                     = IF given THEN SecondSegment(payload) ELSE <<"f">>

\* the well-formed part of the claim: a payload whose first segment is a
\* base-10 integer matches and carries its style; without "<t:" or without
\* ">" the rule does not match; a rule that does not match leaves the state
\* alone
C10_WellFormedMatches ==
  \A k \in 1..Len(ruleLog) :
    LET call == ruleLog[k]
        before == call.before
        after == call.after
    IN  call.rule = "discord_timestamp" =>
          /\ (OpensAt(before) /\ ClosesAhead(before)
                /\ IsBase10Integer(FirstSegment(PayloadOf(before))))
             => call.ok
          /\ ~(OpensAt(before) /\ ClosesAhead(before)) => ~call.ok
          /\ ~call.ok => after = before

----------------------------------------------------------------------------
(* The inline rules of underlinePlugin and spoilerPlugin *)

MaxDelimLen == 6   \* longest source drawn for the delimiter rules

\* String.prototype.charCodeAt(i), the code kept as the character itself;
\* NaN outside the string
charCodeAt(s, i) == IF 0 <= i /\ i < Len(s) THEN s[i + 1] ELSE "NaN"

\* the while loop of both rules, taking a single marker as the closing
\* delimiter
RECURSIVE findClosingSingle(_, _, _)
findClosingSingle(state, marker, pos) ==
  IF pos < state.posMax - 1
  THEN IF charCodeAt(state.src, pos) = marker THEN pos
       ELSE findClosingSingle(state, marker, pos + 1)
  ELSE -1

\* the while loop of both rules, running on to the last closing pair
RECURSIVE findClosingLast(_, _, _)
findClosingLast(state, marker, pos) ==
  IF pos < state.posMax - 1
  THEN LET later == findClosingLast(state, marker, pos + 1)
       IN  IF later # -1 THEN later
           ELSE IF /\ charCodeAt(state.src, pos) = marker
                   /\ charCodeAt(state.src, pos + 1) = marker
           THEN pos
           ELSE -1
  ELSE -1

\* the while loop of both rules: the first pos from content_start on, below
\* posMax - 1, with the marker at pos and at pos + 1; -1 when the loop ends
\* without finding one
RECURSIVE findClosing(_, _, _)
findClosing(state, marker, pos) ==
  IF pos < state.posMax - 1
  THEN IF /\ charCodeAt(state.src, pos) = marker
          /\ charCodeAt(state.src, pos + 1) = marker
       THEN pos
       ELSE findClosing(state, marker, pos + 1)
  ELSE -1

Underscores == <<"_", "_">>
Pipes == <<"|", "|">>
SpoilerClass == <<"s", "p", "o", "i", "l", "e", "r">>
TabIndex == <<"t", "a", "b", "i", "n", "d", "e", "x">>
Role == <<"r", "o", "l", "e">>
Button == <<"b", "u", "t", "t", "o", "n">>
AriaLabel == <<"a", "r", "i", "a", "-", "l", "a", "b", "e", "l">>
SpoilerLabel == <<"S", "p", "o", "i", "l", "e", "r", " ", "(", "c", "l", "i", "c", "k", " ", "t", "o", " ", "r", "e", "v", "e", "a", "l", ")">>

\* the rule registered as discord_underline
underlineRule(state, silent) ==
  LET start == state.pos
      marker == charCodeAt(state.src, start)
      content_start == start + 2
      pos == findClosing(state, "_", content_start)
      token_o == [Token("underline_open", "u", 1) EXCEPT !.markup = Underscores]
      token_t == [Token("text", "", 0)
                    EXCEPT !.content = slice(state.src, content_start, pos)]
      token_c == [Token("underline_close", "u", -1) EXCEPT !.markup = Underscores]
      pushed == IF silent THEN state
                ELSE push(push(push(state, token_o), token_t), token_c)
  IN  IF marker # "_" THEN [ok |-> FALSE, state |-> state]
      ELSE IF start + 4 >= state.posMax THEN [ok |-> FALSE, state |-> state]
      ELSE IF charCodeAt(state.src, start + 1) # "_" THEN [ok |-> FALSE, state |-> state]
      ELSE IF pos = -1 THEN [ok |-> FALSE, state |-> state]
      ELSE [ok |-> TRUE, state |-> [pushed EXCEPT !.pos = pos + 2]]

\* the rule registered as discord_spoiler
spoilerRule(state, silent) ==
  LET start == state.pos
      content_start == start + 2
      pos == findClosing(state, "|", content_start)
      token_o == attrSet(attrSet(attrSet(attrSet(
                   [Token("spoiler_open", "span", 1) EXCEPT !.markup = Pipes],
                   ClassAttr, SpoilerClass), TabIndex, <<"0">>), Role, Button),
                   AriaLabel, SpoilerLabel)
      token_t == [Token("text", "", 0)
                    EXCEPT !.content = slice(state.src, content_start, pos)]
      token_c == [Token("spoiler_close", "span", -1) EXCEPT !.markup = Pipes]
      pushed == IF silent THEN state
                ELSE push(push(push(state, token_o), token_t), token_c)
  IN  IF charCodeAt(state.src, start) # "|" THEN [ok |-> FALSE, state |-> state]
      ELSE IF charCodeAt(state.src, start + 1) # "|" THEN [ok |-> FALSE, state |-> state]
      ELSE IF start + 4 >= state.posMax THEN [ok |-> FALSE, state |-> state]
      ELSE IF pos = -1 THEN [ok |-> FALSE, state |-> state]
      ELSE [ok |-> TRUE, state |-> [pushed EXCEPT !.pos = pos + 2]]

(* The inputs: every source of underscores, pipes and a letter up to a     *)
(* length, the rule called at the start of the source or one character in, *)
(* the parse ending at the end of the source or one character before it.   *)
DelimiterChars == {"_", "|", "a"}

UnderlineU == <<"_", "_", "u", "_", "_">>

TripleUnderscore == <<"_", "_", "_">>

DelimiterSources ==
  UNION {[1..n -> DelimiterChars] : n \in 0..MaxDelimLen} \cup {UnderlineU, TripleUnderscore}

InitDelimiter ==
  /\ clock = SetMax(Clocks)
  /\ ruleLog = <<>>
  /\ \E source \in DelimiterSources :
       \E at \in {0, 1} :
         \E last \in {Len(source) - 1, Len(source)} :
           /\ at < last
           /\ inline = [src |-> source, pos |-> at, posMax |-> last,
                        pending |-> slice(source, 0, at), tokens |-> <<>>]
  /\ IdleEditor /\ IdleSanitizer /\ IdleTime /\ IdleRenderer /\ IdleStore /\ IdleRegistry

\* the tokenizer calls the underline rule at the cursor
UnderlineRule ==
  /\ Len(ruleLog) < MaxRuleCalls
  /\ inline.pos < inline.posMax
  /\ \E silent \in BOOLEAN :
       LET result == underlineRule(inline, silent)
       IN  /\ inline' = result.state
           /\ ruleLog' = Append(ruleLog, RuleCall("discord_underline", silent, inline, result))
  /\ UNCHANGED <<storeVars, registryVars, rendererVars, editorVars, sanitizerVars, clock, timeVars>>

\* the tokenizer calls the spoiler rule at the cursor
SpoilerRule ==
  /\ Len(ruleLog) < MaxRuleCalls
  /\ inline.pos < inline.posMax
  /\ \E silent \in BOOLEAN :
       LET result == spoilerRule(inline, silent)
       IN  /\ inline' = result.state
           /\ ruleLog' = Append(ruleLog, RuleCall("discord_spoiler", silent, inline, result))
  /\ UNCHANGED <<storeVars, registryVars, rendererVars, editorVars, sanitizerVars, clock, timeVars>>

NextDelimiter == UnderlineRule \/ SpoilerRule

SpecDelimiter == InitDelimiter /\ [][NextDelimiter]_vars

----------------------------------------------------------------------------
(* Claims about the delimiter rules *)

DelimiterOf(rule) == IF rule = "discord_underline" THEN "_" ELSE "|"

OpenTypeOf(rule) == IF rule = "discord_underline" THEN "underline_open" ELSE "spoiler_open"

CloseTypeOf(rule) == IF rule = "discord_underline" THEN "underline_close" ELSE "spoiler_close"

IsDelimiterCall(call) == call.rule \in {"discord_underline", "discord_spoiler"}

\* the 1-based places, behind the opening pair at the cursor and inside the
\* parse, where a closing pair starts
ClosingPairs(state, d) ==
  {k \in (state.pos + 3)..(state.posMax - 1) :
     state.src[k] = d /\ state.src[k + 1] = d}

\* the tokens a call has added, the flushed pending text left aside
Emitted(call) ==
  LET old == Len(call.before.tokens) + (IF call.before.pending = <<>> THEN 0 ELSE 1)
  IN  SubSeq(call.after.tokens, old + 1, Len(call.after.tokens))

\* C11: when the underline or the spoiler rule finds a closing pair, it
\* leaves the cursor just behind the first closing pair that follows the
\* opening pair and, when it parses (not silent), it has emitted exactly an
\* open token, one text token holding the source between the two pairs and
\* a close token; "__u__" gives underline_open, text "u", underline_close.
C11_DelimiterSuccess ==
  \A k \in 1..Len(ruleLog) :
    LET call == ruleLog[k]
        d == DelimiterOf(call.rule)
        first == SetMin(ClosingPairs(call.before, d))
        new == Emitted(call)
    IN  (IsDelimiterCall(call) /\ call.ok) =>
          /\ ClosingPairs(call.before, d) # {}
          /\ call.after.pos = first + 1
          /\ ~call.silent =>
               /\ Len(new) = 3
               /\ new[1].type = OpenTypeOf(call.rule)
               /\ new[1].nesting = 1
               /\ new[2].type = "text"
               /\ new[2].content = SubSeq(call.before.src, call.before.pos + 3, first - 1)
               /\ new[3].type = CloseTypeOf(call.rule)
               /\ new[3].nesting = -1
          /\ (/\ call.rule = "discord_underline"
              /\ call.before.src = UnderlineU
              /\ call.before.pos = 0
              /\ ~call.silent)
             => /\ new[1].type = "underline_open"
                /\ new[2].content = <<"u">>
                /\ new[3].type = "underline_close"
                /\ call.after.pos = 5

\* the underline rule has parsed "__u__"
C11_Witness ==
  \E k \in 1..Len(ruleLog) :
    /\ ruleLog[k].rule = "discord_underline"
    /\ ruleLog[k].before.src = UnderlineU
    /\ ruleLog[k].before.pos = 0
    /\ ruleLog[k].ok
    /\ ~ruleLog[k].silent
    /\ Emitted(ruleLog[k])[2].content = <<"u">>

\* the spoiler rule has parsed a pair of pipes around a letter
C11_SpoilerParsed ==
  \E k \in 1..Len(ruleLog) :
    /\ ruleLog[k].rule = "discord_spoiler"
    /\ ruleLog[k].ok
    /\ ~ruleLog[k].silent
    /\ Len(Emitted(ruleLog[k])) = 3
    /\ Emitted(ruleLog[k])[2].content = <<"a">>

----------------------------------------------------------------------------
(* The highlight option of the renderer: normalizeLanguage, highlight and *)
(* escapeHtml                                                             *)

MaxCodeLen == 3   \* longest code drawn for a fence
MaxRenders == 2   \* calls of highlight and escapeHtml in one behaviour

\* String.prototype.toLowerCase on a string
lowerCaseOf(str) == [k \in 1..Len(str) |-> toLowerCase(str[k])]

\* String.prototype.replace(/ch/g, rep)
RECURSIVE replaceAll(_, _, _)
replaceAll(str, ch, rep) ==
  IF str = <<>> THEN <<>>
  ELSE (IF Head(str) = ch THEN rep ELSE <<Head(str)>>) \o replaceAll(Tail(str), ch, rep)

Amp == <<"&", "a", "m", "p", ";">>
Lt == <<"&", "l", "t", ";">>
Gt == <<"&", "g", "t", ";">>
Quot == <<"&", "q", "u", "o", "t", ";">>

escapeHtml(str) ==
  replaceAll(replaceAll(replaceAll(replaceAll(str, "&", Amp), "<", Lt), ">", Gt),
             "\"", Quot)

LANG_ALIASES ==
  { <<<<"j", "s">>, <<"j", "a", "v", "a", "s", "c", "r", "i", "p", "t">>>>,
    <<<<"t", "s">>, <<"t", "y", "p", "e", "s", "c", "r", "i", "p", "t">>>>,
    <<<<"p", "y">>, <<"p", "y", "t", "h", "o", "n">>>>,
    <<<<"s", "h">>, <<"b", "a", "s", "h">>>>,
    <<<<"s", "h", "e", "l", "l">>, <<"b", "a", "s", "h">>>> ,
    <<<<"m", "d">>, <<"m", "a", "r", "k", "d", "o", "w", "n">>>> }

\* the lower-case property names every object literal inherits
ObjectPrototypeKeys == {<<"c", "o", "n", "s", "t", "r", "u", "c", "t", "o", "r">>, <<"_", "_", "p", "r", "o", "t", "o", "_", "_">>}

\* what an inherited property holds: an object, which as a property name
\* reads as its string form
InheritedMember == <<"[object]">>

\* LANG_ALIASES[key]: <<>> stands for undefined
aliasOf(key) ==
  IF \E pair \in LANG_ALIASES : pair[1] = key
  THEN (CHOOSE pair \in LANG_ALIASES : pair[1] = key)[2]
  ELSE IF key \in ObjectPrototypeKeys THEN InheritedMember
  ELSE <<>>

normalizeLanguage(lang) ==
  LET lower == lowerCaseOf(lang)
  IN  IF aliasOf(lower) # <<>> THEN aliasOf(lower) ELSE lower

\* the keys of Prism.languages after the imports: the core of Prism, the
\* seven components and their aliases, and the helper extend
PrismLanguages ==
  { <<"m", "a", "r", "k", "u", "p">>, <<"h", "t", "m", "l">>, <<"x", "m", "l">>, <<"s", "v", "g">>, <<"m", "a", "t", "h", "m", "l">>, <<"s", "s", "m", "l">>, <<"a", "t", "o", "m">>, <<"r", "s", "s">>,
    <<"c", "s", "s">>, <<"c", "l", "i", "k", "e">>, <<"j", "a", "v", "a", "s", "c", "r", "i", "p", "t">>, <<"j", "s">>,
    <<"p", "l", "a", "i", "n">>, <<"p", "l", "a", "i", "n", "t", "e", "x", "t">>, <<"t", "e", "x", "t">>, <<"t", "x", "t">>, <<"e", "x", "t", "e", "n", "d">>,
    <<"t", "y", "p", "e", "s", "c", "r", "i", "p", "t">>, <<"t", "s">>, <<"p", "y", "t", "h", "o", "n">>, <<"p", "y">>, <<"j", "s", "o", "n">>, <<"w", "e", "b", "m", "a", "n", "i", "f", "e", "s", "t">>,
    <<"b", "a", "s", "h">>, <<"s", "h">>, <<"s", "h", "e", "l", "l">>, <<"m", "a", "r", "k", "d", "o", "w", "n">>, <<"m", "d">> }

\* Prism.languages[key] is truthy
hasGrammar(key) == key \in PrismLanguages \/ key \in ObjectPrototypeKeys

\* Prism.highlight when it returns: the code with & and < encoded, inside
\* the token markup of the grammar (one span stands for it)
prismHighlight(code) ==
  <<"<", "s", "p", "a", "n", " ", "c", "l", "a", "s", "s", "=", "\"", "t", "o", "k", "e", "n", "\"", ">">>
    \o replaceAll(replaceAll(code, "&", Amp), "<", Lt)
    \o <<"<", "/", "s", "p", "a", "n", ">">>

PreOpen == <<"<", "p", "r", "e", " ", "c", "l", "a", "s", "s", "=", "\"", "l", "a", "n", "g", "u", "a", "g", "e", "-">>
CodeOpen == <<"\"", ">", "<", "c", "o", "d", "e", " ", "c", "l", "a", "s", "s", "=", "\"", "l", "a", "n", "g", "u", "a", "g", "e", "-">>
TagEnd == <<"\"", ">">>
FallbackOpen == <<"<", "p", "r", "e", " ", "c", "l", "a", "s", "s", "=", "\"", "l", "a", "n", "g", "u", "a", "g", "e", "-", "n", "o", "n", "e", "\"", ">", "<", "c", "o", "d", "e", ">">>
CodeClose == <<"<", "/", "c", "o", "d", "e", ">", "<", "/", "p", "r", "e", ">">>

Returned(html) == [error |-> FALSE, html |-> html]

Thrown == [error |-> TRUE, html |-> <<>>]

\* the highlight option without its try and catch
highlightNoCatch(code, lang, prismThrows) ==
  LET normalizedLang == normalizeLanguage(lang)
  IN  IF normalizedLang # <<>> /\ hasGrammar(normalizedLang)
      THEN IF prismThrows THEN Thrown
           ELSE Returned(PreOpen \o normalizedLang \o CodeOpen \o normalizedLang
                           \o TagEnd \o prismHighlight(code) \o CodeClose)
      ELSE Returned(FallbackOpen \o escapeHtml(code) \o CodeClose)

\* the highlight option; prismThrows tells whether Prism.highlight, when it
\* is called, throws
highlight(code, lang, prismThrows) ==
  LET normalizedLang == normalizeLanguage(lang)
  IN  IF normalizedLang # <<>> /\ hasGrammar(normalizedLang) /\ ~prismThrows
      THEN Returned(PreOpen \o normalizedLang \o CodeOpen \o normalizedLang
                      \o TagEnd \o prismHighlight(code) \o CodeClose)
      ELSE Returned(FallbackOpen \o escapeHtml(code) \o CodeClose)

(* The inputs: every code of unsafe characters and a letter up to a length, *)
(* and language tags: none, aliases, canonical names in both cases, an     *)
(* unknown language and an inherited property name.                        *)
CodeChars == {"&", "<", ">", "\"", "'", "a"}

Codes == UNION {[1..n -> CodeChars] : n \in 0..MaxCodeLen}

LangTags ==
  { <<>>, <<"j", "s">>, <<"J", "S">>, <<"j", "a", "v", "a", "s", "c", "r", "i", "p", "t">>, <<"P", "y">>, <<"s", "h", "e", "l", "l">>, <<"j", "s", "o", "n">>,
    <<"n", "o", "p", "e">>, <<"c", "o", "n", "s", "t", "r", "u", "c", "t", "o", "r">> }

RenderCall(fn, prismThrows, result) ==
  [fn |-> fn, prismThrows |-> prismThrows, error |-> result.error, html |-> result.html]

InitHighlight ==
  /\ fence \in [code : Codes, lang : LangTags]
  /\ rendered = <<>>
  /\ ruler = <<>>
  /\ tried = 0
  /\ clock = 0
  /\ IdleEditor /\ IdleSanitizer /\ IdleTime /\ IdleParser /\ IdleStore /\ IdleRegistry

\* markdown-it renders a fence with this code and this language tag
Highlight ==
  /\ Len(rendered) < MaxRenders
  /\ \E prismThrows \in BOOLEAN :
       rendered' = Append(rendered,
                          RenderCall("highlight", prismThrows,
                                     highlight(fence.code, fence.lang, prismThrows)))
  /\ UNCHANGED <<storeVars, registryVars, editorVars, sanitizerVars, clock, timeVars, parserVars, ruler, tried, fence>>

\* escapeHtml on the code
EscapeHtml ==
  /\ Len(rendered) < MaxRenders
  /\ rendered' = Append(rendered,
                        RenderCall("escapeHtml", FALSE, Returned(escapeHtml(fence.code))))
  /\ UNCHANGED <<storeVars, registryVars, editorVars, sanitizerVars, clock, timeVars, parserVars, ruler, tried, fence>>

NextHighlight == Highlight \/ EscapeHtml

SpecHighlight == InitHighlight /\ [][NextHighlight]_vars

----------------------------------------------------------------------------
(* Claims about escaping and code fences *)

Unsafe == {"&", "<", ">", "\"", "'"}

EntityOf(c) ==
  IF c = "&" THEN <<"&", "a", "m", "p", ";">>
  ELSE IF c = "<" THEN <<"&", "l", "t", ";">>
  ELSE IF c = ">" THEN <<"&", "g", "t", ";">>
  ELSE IF c = "\"" THEN <<"&", "q", "u", "o", "t", ";">>
  ELSE IF c = "'" THEN <<"&", "#", "3", "9", ";">>
  ELSE <<c>>

Entities(chars) == {EntityOf(c) : c \in chars}

\* the text is a run of letters and of entities of the given characters,
\* and stands for the code
RECURSIVE Decodes(_, _, _)
Decodes(text, code, chars) ==
  IF code = <<>> THEN text = <<>>
  ELSE LET c == Head(code)
           e == IF c \in chars THEN EntityOf(c) ELSE <<c>>
       IN  /\ startsWith(text, e)
           /\ Decodes(SubSeq(text, Len(e) + 1, Len(text)), Tail(code), chars)

\* C13: escapeHtml replaces each of the five characters & < > " ' by its
\* entity, so that its result holds none of the five as a raw character.
C13_EscapesFive ==
  \A k \in 1..Len(rendered) :
    rendered[k].fn = "escapeHtml" =>
      /\ Decodes(rendered[k].html, fence.code, Unsafe)
      /\ \A i \in 1..Len(rendered[k].html) :
           rendered[k].html[i] \notin {"<", ">", "\"", "'"}

\* what escapeHtml does do: a code without a single quote comes out with
\* & < > " replaced by their entities
C13_EscapesFour ==
  \A k \in 1..Len(rendered) :
    (rendered[k].fn = "escapeHtml" /\ \A i \in 1..Len(fence.code) : fence.code[i] # "'")
    => Decodes(rendered[k].html, fence.code, Unsafe \ {"'"})

AliasTable ==
  [tag \in {<<"j", "s">>, <<"t", "s">>, <<"p", "y">>, <<"s", "h">>, <<"s", "h", "e", "l", "l">>, <<"m", "d">>} |->
     IF tag = <<"j", "s">> THEN <<"j", "a", "v", "a", "s", "c", "r", "i", "p", "t">>
     ELSE IF tag = <<"t", "s">> THEN <<"t", "y", "p", "e", "s", "c", "r", "i", "p", "t">>
     ELSE IF tag = <<"p", "y">> THEN <<"p", "y", "t", "h", "o", "n">>
     ELSE IF tag = <<"m", "d">> THEN <<"m", "a", "r", "k", "d", "o", "w", "n">>
     ELSE <<"b", "a", "s", "h">>]

\* the tag in lower case, resolved through the alias table
RefCanonical(tag) ==
  LET lower == [k \in 1..Len(tag) |->
                  IF \E i \in 1..26 : UpperCase[i] = tag[k]
                  THEN LowerCase[CHOOSE i \in 1..26 : UpperCase[i] = tag[k]]
                  ELSE tag[k]]
  IN  IF lower \in DOMAIN AliasTable THEN AliasTable[lower] ELSE lower

\* what lies between the opening and the closing markup of the fallback
FallbackBody(html) ==
  SubSeq(html, Len(<<"<", "p", "r", "e", " ", "c", "l", "a", "s", "s", "=", "\"", "l", "a", "n", "g", "u", "a", "g", "e", "-", "n", "o", "n", "e", "\"", ">", "<", "c", "o", "d", "e", ">">>) + 1,
         Len(html) - Len(<<"<", "/", "c", "o", "d", "e", ">", "<", "/", "p", "r", "e", ">">>))

IsFallback(html, code) ==
  /\ startsWith(html, <<"<", "p", "r", "e", " ", "c", "l", "a", "s", "s", "=", "\"", "l", "a", "n", "g", "u", "a", "g", "e", "-", "n", "o", "n", "e", "\"", ">", "<", "c", "o", "d", "e", ">">>)
  /\ endsWith(html, <<"<", "/", "c", "o", "d", "e", ">", "<", "/", "p", "r", "e", ">">>)
  /\ Len(html) >= Len(<<"<", "p", "r", "e", " ", "c", "l", "a", "s", "s", "=", "\"", "l", "a", "n", "g", "u", "a", "g", "e", "-", "n", "o", "n", "e", "\"", ">", "<", "c", "o", "d", "e", ">">>) + Len(<<"<", "/", "c", "o", "d", "e", ">", "<", "/", "p", "r", "e", ">">>)
  /\ Decodes(FallbackBody(html), code, {"&", "<", ">", "\""})

\* C14: rendering a code fence never fails: the tag is lower-cased and
\* resolved through the alias table; when the resolved language has a
\* highlighter and highlighting succeeds the block carries class
\* language-<canonical>; in every other case (no tag, unknown language,
\* highlighter exception) the result is the escaped code inside
\* <pre class="language-none"><code>, no error comes out, and the same
\* input gives the same fallback.
C14_FenceNeverFails ==
  \A k \in 1..Len(rendered) :
    LET r == rendered[k]
        canonical == RefCanonical(fence.lang)
        highlights == canonical # <<>> /\ canonical \in PrismLanguages /\ ~r.prismThrows
    IN  r.fn = "highlight" =>
          /\ ~r.error
          /\ highlights =>
               /\ startsWith(r.html, <<"<", "p", "r", "e", " ", "c", "l", "a", "s", "s", "=", "\"", "l", "a", "n", "g", "u", "a", "g", "e", "-">> \o canonical \o <<"\"", ">">>)
               /\ endsWith(r.html, <<"<", "/", "c", "o", "d", "e", ">", "<", "/", "p", "r", "e", ">">>)
          /\ ~highlights => IsFallback(r.html, fence.code)
          /\ \A j \in 1..Len(rendered) :
               (rendered[j].fn = "highlight" /\ rendered[j].prismThrows = r.prismThrows)
               => rendered[j].html = r.html

\* a fence tagged JS has been rendered while the highlighter throws, and
\* again while it does not
C14_Witness ==
  /\ fence.lang = <<"J", "S">>
  /\ fence.code # <<>>
  /\ \E j, k \in 1..Len(rendered) :
       /\ rendered[j].fn = "highlight" /\ rendered[j].prismThrows
       /\ IsFallback(rendered[j].html, fence.code)
       /\ rendered[k].fn = "highlight" /\ ~rendered[k].prismThrows
       /\ startsWith(rendered[k].html, <<"<", "p", "r", "e", " ", "c", "l", "a", "s", "s", "=", "\"", "l", "a", "n", "g", "u", "a", "g", "e", "-", "j", "a", "v", "a", "s", "c", "r", "i", "p", "t", "\"", ">">>)

----------------------------------------------------------------------------
(* Claims about the block prefix, the masked link and the code block *)

HasPrefix(line, prefix) == startsWith(line, prefix \o <<" ">>)

IsBlank(line) == \A j \in 1..Len(line) : isWhiteSpace(line[j])

\* every line of the region carries the prefix or is blank
AllPrefixedOrBlank(lines, prefix) ==
  \A i \in 1..Len(lines) : HasPrefix(lines[i], prefix) \/ IsBlank(lines[i])

\* what the decision makes of one line
ExpectedLine(line, prefix, strip) ==
  IF strip
  THEN IF HasPrefix(line, prefix)
       THEN SubSeq(line, Len(prefix) + 2, Len(line)) ELSE line
  ELSE IF IsBlank(line) THEN line ELSE prefix \o <<" ">> \o line

\* the region after the decision, lines joined by newlines again
RECURSIVE ExpectedRegion(_, _, _)
ExpectedRegion(lines, prefix, strip) ==
  IF Len(lines) = 0 THEN <<>>
  ELSE IF Len(lines) = 1 THEN ExpectedLine(lines[1], prefix, strip)
  ELSE ExpectedLine(lines[1], prefix, strip) \o <<NL>>
         \o ExpectedRegion(Tail(lines), prefix, strip)

\* the lines the decision changes
ChangedLines(lines, prefix, strip) ==
  {i \in 1..Len(lines) :
     IF strip THEN HasPrefix(lines[i], prefix) ELSE ~IsBlank(lines[i])}

\* C15: over the lines of the expanded region, if every line starts with
\* prefix+" " or is blank, prefix+" " is stripped from every line that has
\* it and the selection ends len(prefix+" ") times the number of those
\* lines before the end of the region; otherwise prefix+" " is added to
\* every line that is not blank, lines already carrying it included, blank
\* lines are left alone, and the selection ends len(prefix+" ") times the
\* number of those lines behind the end of the region.
C15_BlockPrefixDecision ==
  \A i \in 1..Len(hist) :
    LET h == hist[i]
        L == RefLineStart(h.text, h.start)
        R == RefLineEnd(h.text, h.end)
        lines == RefLines(h.text, h.start, h.end)
        strip == AllPrefixedOrBlank(lines, h.arg)
        n == Cardinality(ChangedLines(lines, h.arg, strip))
        delta == IF strip THEN 0 - (Len(h.arg) + 1) * n ELSE (Len(h.arg) + 1) * n
    IN  h.op = "toggleBlockPrefix" =>
          /\ h.out.selection.end = R + delta
          /\ slice(h.out.text, L, h.out.selection.end) = ExpectedRegion(lines, h.arg, strip)

\* "> a" and "a" selected together got the quote prefix, both of them
C15_Witness ==
  \E i \in 1..Len(hist) :
    /\ hist[i].op = "toggleBlockPrefix"
    /\ hist[i].arg = <<">">>
    /\ hist[i].text = QuotedAndPlain
    /\ hist[i].out.text = <<">", " ", ">", " ", "a", NL, ">", " ", "a">>
    /\ hist[i].out.selection.end = 9

\* C16: toggleBlockPrefix touches only the full lines covering the
\* selection: with L just behind the last newline before start (0 if none,
\* so L <= start) and R the first newline at or after end (the length if
\* none), the result is text[0..L) + transformed lines + text[R..) and the
\* new selection starts at L.
C16_BlockPrefixFrame ==
  \A i \in 1..Len(hist) :
    LET h == hist[i]
        L == RefLineStart(h.text, h.start)
        R == RefLineEnd(h.text, h.end)
        lines == RefLines(h.text, h.start, h.end)
        strip == AllPrefixedOrBlank(lines, h.arg)
    IN  h.op = "toggleBlockPrefix" =>
          /\ L <= h.start
          /\ h.out.text = SubSeq(h.text, 1, L) \o ExpectedRegion(lines, h.arg, strip)
                            \o SubSeq(h.text, R + 1, Len(h.text))
          /\ h.out.selection.start = L

\* the frame when the call is not made at offset 0 of a text that begins
\* with a newline
C16_FrameAwayFromLeadingNewline ==
  \A i \in 1..Len(hist) :
    LET h == hist[i]
        L == RefLineStart(h.text, h.start)
        R == RefLineEnd(h.text, h.end)
        lines == RefLines(h.text, h.start, h.end)
        strip == AllPrefixedOrBlank(lines, h.arg)
    IN  (/\ h.op = "toggleBlockPrefix"
         /\ ~(h.start = 0 /\ h.text # <<>> /\ h.text[1] = NL))
        => /\ h.out.text = SubSeq(h.text, 1, L) \o ExpectedRegion(lines, h.arg, strip)
                             \o SubSeq(h.text, R + 1, Len(h.text))
           /\ h.out.selection.start = L

\* the parts of the text around the selection of a call
BeforeOf(h) == SubSeq(h.text, 1, h.start)

SelectedOf(h) == SubSeq(h.text, h.start + 1, h.end)

AfterOf(h) == SubSeq(h.text, h.end + 1, Len(h.text))

\* the link text of a call: the selection, or the placeholder for none
LinkTextOf(h) == IF h.start = h.end THEN LinkTextPlaceholder ELSE SelectedOf(h)

\* [linkText](url)
MaskedLink(linkText, url) == <<"[">> \o linkText \o <<"]", "(">> \o url \o <<")">>

\* C17: insertMaskedLink with a url other than the placeholder "url" gives
\* before + "[" + selected + "](" + url + ")" + after, and the resulting
\* selection is a collapsed caret immediately behind the inserted link.
C17_LinkThenCaret ==
  \A i \in 1..Len(hist) :
    LET h == hist[i]
        link == MaskedLink(LinkTextOf(h), h.arg)
    IN  (h.op = "insertMaskedLink" /\ h.arg # UrlPlaceholder) =>
          /\ h.out.text = BeforeOf(h) \o link \o AfterOf(h)
          /\ h.out.selection.start = h.out.selection.end
          /\ h.out.selection.end = h.start + Len(link)

\* the text of such a call, and the selection the code returns for it: the
\* inserted link from its first to behind its last character
C17_LinkSelected ==
  \A i \in 1..Len(hist) :
    LET h == hist[i]
        link == MaskedLink(LinkTextOf(h), h.arg)
    IN  (h.op = "insertMaskedLink" /\ h.arg # UrlPlaceholder) =>
          /\ h.out.text = BeforeOf(h) \o link \o AfterOf(h)
          /\ h.out.selection.start = h.start
          /\ h.out.selection.end = h.start + Len(link)

\* C18: insertMaskedLink with the placeholder "url": the link text is the
\* selected substring, or "link text" for an empty selection, and the
\* returned selection covers exactly the URL portion,
\* result.text[selection.start..selection.end) = "url".
C18_PlaceholderUrlSelected ==
  \A i \in 1..Len(hist) :
    LET h == hist[i]
        link == MaskedLink(LinkTextOf(h), UrlPlaceholder)
    IN  (h.op = "insertMaskedLink" /\ h.arg = UrlPlaceholder) =>
          /\ h.out.text = BeforeOf(h) \o link \o AfterOf(h)
          /\ h.out.selection.start = h.start + Len(LinkTextOf(h)) + 3
          /\ h.out.selection.end = h.out.selection.start + 3
          /\ h.out.selection.end <= Len(h.out.text)
          /\ SubSeq(h.out.text, h.out.selection.start + 1, h.out.selection.end)
               = UrlPlaceholder

\* a link inserted at a caret, with "link text", and one around a selection
C18_Witness ==
  /\ \E i \in 1..Len(hist) :
       /\ hist[i].op = "insertMaskedLink" /\ hist[i].arg = UrlPlaceholder
       /\ hist[i].start = hist[i].end
       /\ hist[i].start > 0
       /\ hist[i].out.selection = [start |-> hist[i].start + 12,
                                   end |-> hist[i].start + 15]
  /\ \E i \in 1..Len(hist) :
       /\ hist[i].op = "insertMaskedLink" /\ hist[i].arg = UrlPlaceholder
       /\ hist[i].start < hist[i].end

\* the selection of a call sits between an opening and a closing fence
BetweenFences(h) ==
  /\ \E k \in 1..h.start :
       /\ k + 2 <= h.start
       /\ SubSeq(h.text, k, k + 2) = Fence
       /\ h.text[h.start] = NL
       /\ \A j \in (k + 3)..(h.start - 1) : isWordChar(h.text[j])
  /\ h.end + 4 <= Len(h.text)
  /\ SubSeq(h.text, h.end + 1, h.end + 4) = <<NL>> \o Fence

\* C19: toggleCodeBlock always wraps, also a selection that already sits
\* between an opening and a closing fence: the result is before + fence +
\* language + newline + selected + newline + fence + after, and both
\* selection bounds move right by the length of the opening fence, so the
\* selected text is the same.
C19_CodeBlockAlwaysWraps ==
  \A i \in 1..Len(hist) :
    LET h == hist[i]
        opening == Fence \o h.arg \o <<NL>>
    IN  h.op = "toggleCodeBlock" =>
          /\ h.out.text = BeforeOf(h) \o opening \o SelectedOf(h)
                            \o <<NL>> \o Fence \o AfterOf(h)
          /\ h.out.selection.start = h.start + Len(opening)
          /\ h.out.selection.end = h.end + Len(opening)
          /\ SubSeq(h.out.text, h.out.selection.start + 1, h.out.selection.end)
               = SelectedOf(h)

\* a block wrapped a second time from between its own fences
C19_Witness ==
  \E i \in 1..Len(hist) :
    /\ hist[i].op = "toggleCodeBlock"
    /\ BetweenFences(hist[i])
    /\ hist[i].start < hist[i].end
    /\ Len(hist[i].out.text) > Len(hist[i].text)

----------------------------------------------------------------------------
(* The inline rule chain: md.inline.ruler and ParserInline.tokenize *)

\* the longest source drawn from TokenizerChars
MaxSourceLen == 3

\* the inline rules of a new MarkdownIt, in the order of the chain
DefaultInlineRules ==
  <<"text", "linkify", "newline", "escape", "backticks", "strikethrough",
    "emphasis", "link", "image", "autolink", "html_inline", "entity">>

\* Ruler.__find__: the index of a rule, -1 for none
find(rules, name) ==
  LET K == {k \in 1..Len(rules) : rules[k] = name}
  IN  IF K = {} THEN -1 ELSE SetMin(K) - 1

\* Ruler.before(beforeName, ruleName, fn): the new rule takes the place of
\* the named one, which moves one place down with all behind it
before(rules, beforeName, ruleName) ==
  LET index == find(rules, beforeName)
  IN  SubSeq(rules, 1, index) \o <<ruleName>> \o SubSeq(rules, index + 1, Len(rules))

\* Ruler.push(ruleName, fn): the new rule goes to the end of the chain
rulerPush(rules, ruleName) == Append(rules, ruleName)

\* what a rule returns, with the state it leaves
Unmatched(state) == [ok |-> FALSE, state |-> state]

Matched(state) == [ok |-> TRUE, state |-> state]

\* isTerminatorChar of the text rule
TerminatorChars ==
  {NL, "!", "$", "%", "&", "*", "+", "-", ":", "<", "=", ">", "@", "[",
   "\\", "]", "^", "_", BT, "{", "}", "~"}

\* the end of the run of characters from pos that are no terminators
RECURSIVE textEnd(_, _)
textEnd(state, pos) ==
  IF pos < state.posMax /\ charCodeAt(state.src, pos) \notin TerminatorChars
  THEN textEnd(state, pos + 1) ELSE pos

\* the text rule: a run of ordinary characters goes to the pending text
textRule(state, silent) ==
  LET pos == textEnd(state, state.pos)
  IN  IF pos = state.pos THEN Unmatched(state)
      ELSE Matched([state EXCEPT
                      !.pending = IF silent THEN @
                                  ELSE @ \o slice(state.src, state.pos, pos),
                      !.pos = pos])

\* the character on which each of the other rules of the library starts
StartChar ==
  [newline |-> NL, escape |-> "\\", backticks |-> BT, strikethrough |-> "~",
   link |-> "[", image |-> "!", entity |-> "&"]

\* the cursor is where such a rule starts: on its character, and on ://
\* for linkify
startsRule(name, state) ==
  IF name = "linkify"
  THEN slice(state.src, state.pos, state.pos + 3) = <<":", "/", "/">>
  ELSE name \in DOMAIN StartChar /\ charCodeAt(state.src, state.pos) = StartChar[name]

\* such a rule away from where it starts
quietRule(name, state, silent) == Unmatched(state)

\* the html_inline rule: the html option is off
htmlInlineRule(state, silent) == Unmatched(state)

\* the length of the run of the marker from start (scanDelims)
RECURSIVE scanDelims(_, _, _)
scanDelims(state, start, marker) ==
  IF start < state.posMax /\ charCodeAt(state.src, start) = marker
  THEN 1 + scanDelims(state, start + 1, marker) ELSE 0

\* count text tokens, each holding the marker
RECURSIVE pushMarkers(_, _, _)
pushMarkers(state, marker, count) ==
  IF count = 0 THEN state
  ELSE pushMarkers(push(state, [Token("text", "", 0) EXCEPT !.content = <<marker>>]),
                   marker, count - 1)

\* the emphasis rule: a run of _ or * becomes one text token for each
\* marker (the pairing into em and strong is done after the chain)
emphasisRule(state, silent) ==
  LET start == state.pos
      marker == charCodeAt(state.src, start)
      length == scanDelims(state, start, marker)
  IN  IF silent THEN Unmatched(state)
      ELSE IF marker # "_" /\ marker # "*" THEN Unmatched(state)
      ELSE Matched([pushMarkers(state, marker, length) EXCEPT !.pos = @ + length])

SchemeFirst == {"a", "t", "u"}

SchemeRest == SchemeFirst \cup {"1", "+", ".", "-"}

\* AUTOLINK_RE: a letter, one or more scheme characters, a colon and a rest
\* without < > and white space
isAutolink(url) ==
  \E colon \in 3..Len(url) :
    /\ url[colon] = ":"
    /\ url[1] \in SchemeFirst
    /\ \A k \in 2..(colon - 1) : url[k] \in SchemeRest
    /\ \A k \in (colon + 1)..Len(url) :
         url[k] \notin {"<", ">"} /\ ~isWhiteSpace(url[k])

\* where the > that closes the < at start stands: -1 if the parse ends or
\* another < comes first
RECURSIVE autolinkEnd(_, _)
autolinkEnd(state, pos) ==
  IF pos + 1 >= state.posMax THEN -1
  ELSE IF charCodeAt(state.src, pos + 1) = "<" THEN -1
  ELSE IF charCodeAt(state.src, pos + 1) = ">" THEN pos + 1
  ELSE autolinkEnd(state, pos + 1)

HrefAttr == <<"h", "r", "e", "f">>

\* the autolink rule: <scheme:rest> becomes a link (no source of the model
\* holds an @, so the e-mail form is left out)
autolinkRule(state, silent) ==
  LET start == state.pos
      pos == autolinkEnd(state, start)
      url == slice(state.src, start + 1, pos)
      token_o == attrSet(Token("link_open", "a", 1), HrefAttr, url)
      token_t == [Token("text", "", 0) EXCEPT !.content = url]
      token_c == Token("link_close", "a", -1)
      pushed == IF silent THEN state
                ELSE push(push(push(state, token_o), token_t), token_c)
  IN  IF charCodeAt(state.src, start) # "<" THEN Unmatched(state)
      ELSE IF pos = -1 THEN Unmatched(state)
      ELSE IF isAutolink(url)
           THEN Matched([pushed EXCEPT !.pos = @ + Len(url) + 2])
      ELSE Unmatched(state)

\* the rule function behind a name of the chain
ruleOf(name, state, silent) ==
  CASE name = "text" -> textRule(state, silent)
    [] name = "emphasis" -> emphasisRule(state, silent)
    [] name = "autolink" -> autolinkRule(state, silent)
    [] name = "html_inline" -> htmlInlineRule(state, silent)
    [] name = "discord_underline" -> underlineRule(state, silent)
    [] name = "discord_spoiler" -> spoilerRule(state, silent)
    [] name = "discord_timestamp" -> timestampRule(state, silent)
    [] OTHER -> quietRule(name, state, silent)

\* StateInline.pushPending
pushPending(state) ==
  [state EXCEPT !.pending = <<>>,
                !.tokens = Append(@, [Token("text", "", 0) EXCEPT !.content = state.pending])]

CustomRules == {"discord_underline", "discord_spoiler", "discord_timestamp"}

\* the characters of the sources, and the sources that show each rule
TokenizerChars == {"_", "|", "*", "a", "<"}

TimestampOne == <<"<", "t", ":", "1", ">">>

SpoilerA == <<"|", "|", "a", "|", "|">>

AutolinkAa == <<"<", "a", "a", ":", "a", ">">>

StarredTimestamp == <<"*">> \o TimestampOne \o <<"*">>

TokenizerSources ==
  (UNION {[1..n -> TokenizerChars] : n \in 1..MaxSourceLen})
    \cup {TimestampOne, UnderlineU, SpoilerA, AutolinkAa, StarredTimestamp}

\* the module is loaded: md is constructed, nothing is parsed yet
InitTokenizer ==
  /\ ruler = DefaultInlineRules
  /\ tried = 0
  /\ fence = [code |-> <<>>, lang |-> <<>>]
  /\ rendered = <<>>
  /\ clock = SetMax(Clocks)
  /\ IdleEditor /\ IdleSanitizer /\ IdleTime /\ IdleParser /\ IdleStore /\ IdleRegistry

\* md.use(underlinePlugin)
UseUnderlinePlugin ==
  /\ find(ruler, "discord_underline") = -1
  /\ ruler' = before(ruler, "emphasis", "discord_underline")
  /\ UNCHANGED <<storeVars, registryVars, editorVars, sanitizerVars, clock, timeVars, parserVars,
                 tried, fence, rendered>>

\* md.use(spoilerPlugin)
UseSpoilerPlugin ==
  /\ find(ruler, "discord_underline") # -1
  /\ find(ruler, "discord_spoiler") = -1
  /\ ruler' = before(ruler, "emphasis", "discord_spoiler")
  /\ UNCHANGED <<storeVars, registryVars, editorVars, sanitizerVars, clock, timeVars, parserVars,
                 tried, fence, rendered>>

\* md.use(timestampPlugin)
UseTimestampPlugin ==
  /\ find(ruler, "discord_spoiler") # -1
  /\ find(ruler, "discord_timestamp") = -1
  /\ ruler' = rulerPush(ruler, "discord_timestamp")
  /\ UNCHANGED <<storeVars, registryVars, editorVars, sanitizerVars, clock, timeVars, parserVars,
                 tried, fence, rendered>>

Loaded == \A name \in CustomRules : find(ruler, name) # -1

\* renderMarkdown: the inline parser gets a source
Parse ==
  /\ Loaded
  /\ inline.src = <<>>
  /\ \E source \in TokenizerSources :
       inline' = [src |-> source, pos |-> 0, posMax |-> Len(source),
                  pending |-> <<>>, tokens |-> <<>>]
  /\ UNCHANGED <<storeVars, registryVars, editorVars, sanitizerVars, clock, timeVars, ruleLog, rendererVars>>

\* tokenize, one turn of the inner loop: the next rule of the chain is
\* called at the cursor; after a match the chain starts again.  The sources
\* hold no character on which one of the rules of StartChar starts.
TryRule ==
  /\ inline.pos < inline.posMax
  /\ tried < Len(ruler)
  /\ ~startsRule(ruler[tried + 1], inline)
  /\ LET result == ruleOf(ruler[tried + 1], inline, FALSE)
     IN  /\ inline' = result.state
         /\ ruleLog' = Append(ruleLog, RuleCall(ruler[tried + 1], FALSE, inline, result))
         /\ tried' = IF result.ok THEN 0 ELSE tried + 1
  /\ UNCHANGED <<storeVars, registryVars, editorVars, sanitizerVars, clock, timeVars, ruler, fence, rendered>>

\* tokenize, no rule matched: the character goes to the pending text
NoRuleMatched ==
  /\ inline.pos < inline.posMax
  /\ tried = Len(ruler)
  /\ inline' = [inline EXCEPT !.pending = @ \o <<inline.src[inline.pos + 1]>>,
                              !.pos = @ + 1]
  /\ tried' = 0
  /\ UNCHANGED <<storeVars, registryVars, editorVars, sanitizerVars, clock, timeVars, ruleLog, ruler,
                 fence, rendered>>

\* tokenize, behind the loop: what is pending becomes the last text token
PushPending ==
  /\ inline.src # <<>>
  /\ inline.pos >= inline.posMax
  /\ inline.pending # <<>>
  /\ inline' = pushPending(inline)
  /\ UNCHANGED <<storeVars, registryVars, editorVars, sanitizerVars, clock, timeVars, ruleLog, rendererVars>>

NextTokenizer ==
  \/ UseUnderlinePlugin
  \/ UseSpoilerPlugin
  \/ UseTimestampPlugin
  \/ Parse
  \/ TryRule
  \/ NoRuleMatched
  \/ PushPending

SpecTokenizer == InitTokenizer /\ [][NextTokenizer]_vars

----------------------------------------------------------------------------
(* Claims about the order of the rule chain *)

\* the calls of a rule that the log holds before call i, at the same cursor
TriedBefore(name, i) ==
  \E j \in 1..(i - 1) :
    /\ ruleLog[j].rule = name
    /\ ruleLog[j].before.pos = ruleLog[i].before.pos

\* C20: the three custom inline rules (underline, spoiler, timestamp) are
\* registered ahead of the emphasis rule, so wherever emphasis is tried each
\* of them has been tried at that position before it, and the first rule
\* that matches consumes the input.
C20_CustomRulesBeforeEmphasis ==
  /\ Loaded => \A name \in CustomRules : find(ruler, name) < find(ruler, "emphasis")
  /\ \A i \in 1..Len(ruleLog) :
       ruleLog[i].rule = "emphasis" =>
         \A name \in CustomRules : TriedBefore(name, i)
  /\ \A i \in 1..Len(ruleLog) :
       ruleLog[i].ok =>
         /\ ruleLog[i].after.pos > ruleLog[i].before.pos
         /\ \A j \in (i + 1)..Len(ruleLog) :
              ruleLog[j].before.pos >= ruleLog[i].after.pos

\* the same for the two delimiter rules alone
C20_DelimiterRulesBeforeEmphasis ==
  /\ Loaded => \A name \in {"discord_underline", "discord_spoiler"} :
                 find(ruler, name) < find(ruler, "emphasis")
  /\ \A i \in 1..Len(ruleLog) :
       ruleLog[i].rule = "emphasis" =>
         /\ TriedBefore("discord_underline", i)
         /\ TriedBefore("discord_spoiler", i)
  /\ \A i \in 1..Len(ruleLog) :
       ruleLog[i].ok =>
         /\ ruleLog[i].after.pos > ruleLog[i].before.pos
         /\ \A j \in (i + 1)..Len(ruleLog) :
              ruleLog[j].before.pos >= ruleLog[i].after.pos

\* the timestamp rule stands at the end of the chain, behind emphasis, and
\* is called at a position only after emphasis was
C20_TimestampBehindEmphasis ==
  /\ Loaded => find(ruler, "discord_timestamp") = Len(ruler) - 1
  /\ \A i \in 1..Len(ruleLog) :
       ruleLog[i].rule = "discord_timestamp" => TriedBefore("emphasis", i)

----------------------------------------------------------------------------
(* Claims about the minimal form and the cursor of the custom rules *)

\* the rule function of a logged call, applied to a state
RuleApplied(call, state) ==
  IF call.rule = "discord_underline" THEN underlineRule(state, call.silent)
  ELSE IF call.rule = "discord_spoiler" THEN spoilerRule(state, call.silent)
  ELSE timestampRule(state, call.silent)

\* at the cursor stands an opening pair, one other character and a closing
\* pair, and the parse ends there
MinimalFormAtEnd(state, d) ==
  /\ state.posMax = state.pos + 5
  /\ state.posMax <= Len(state.src)
  /\ state.src[state.pos + 1] = d /\ state.src[state.pos + 2] = d
  /\ state.src[state.pos + 3] # d
  /\ state.src[state.pos + 4] = d /\ state.src[state.pos + 5] = d

\* C21: the underline and the spoiler rule need the minimal form "__x__":
\* whenever one of them matches, the content between the opening and the
\* closing pair is not empty; the minimal form at the end of the text is
\* matched; and the outcome for an opening pair is the same when the text
\* ends behind the closing pair.
C21_MinimalForm ==
  \A k \in 1..Len(ruleLog) :
    LET call == ruleLog[k]
        d == DelimiterOf(call.rule)
        cut == [call.before EXCEPT !.posMax = call.after.pos]
    IN  IsDelimiterCall(call) =>
          /\ call.ok => call.after.pos - 2 > call.before.pos + 2
          /\ MinimalFormAtEnd(call.before, d) => call.ok
          /\ call.ok => /\ RuleApplied(call, cut).ok
                        /\ RuleApplied(call, cut).state.pos = call.after.pos

\* the minimal form at the end of the text is matched, and a match around a
\* content that is not empty stays a match when the text ends behind it
C21_MinimalFormMatches ==
  \A k \in 1..Len(ruleLog) :
    LET call == ruleLog[k]
        d == DelimiterOf(call.rule)
        cut == [call.before EXCEPT !.posMax = call.after.pos]
    IN  IsDelimiterCall(call) =>
          /\ MinimalFormAtEnd(call.before, d) => call.ok
          /\ (call.ok /\ call.after.pos - 2 > call.before.pos + 2)
             => /\ RuleApplied(call, cut).ok
                /\ RuleApplied(call, cut).state.pos = call.after.pos

\* a rule has matched an opening pair that the closing pair follows at once
C21_EmptyContentMatched ==
  \E k \in 1..Len(ruleLog) :
    /\ IsDelimiterCall(ruleLog[k])
    /\ ruleLog[k].ok
    /\ ruleLog[k].after.pos = ruleLog[k].before.pos + 4

\* C23: whenever the underline, the spoiler or the timestamp rule returns
\* true, in silent or in normal mode, the cursor has moved forward and lies
\* inside the parse, start < state.pos <= state.posMax, also when posMax
\* ends before a later ">" of the source; whenever a rule returns false the
\* cursor has not moved and no token was pushed.
C23_CursorDiscipline ==
  \A k \in 1..Len(ruleLog) :
    LET call == ruleLog[k]
    IN  /\ call.ok => /\ call.before.pos < call.after.pos
                      /\ call.after.pos <= call.before.posMax
        /\ ~call.ok => /\ call.after.pos = call.before.pos
                       /\ call.after.tokens = call.before.tokens
                       /\ call.after.pending = call.before.pending

\* the same without the upper bound for the timestamp rule, whose cursor
\* goes behind the first ">" of the source wherever the parse ends
C23_CursorMovesForward ==
  \A k \in 1..Len(ruleLog) :
    LET call == ruleLog[k]
    IN  /\ call.ok => /\ call.before.pos < call.after.pos
                      /\ IsDelimiterCall(call) => call.after.pos <= call.before.posMax
                      /\ call.after.pos <= Len(call.before.src)
        /\ ~call.ok => call.after = call.before

\* the characters that end an attribute value or open and close a tag
BreakoutChars == {"\"", "<", ">"}

HasBreakout(value) == \E k \in 1..Len(value) : value[k] \in BreakoutChars

\* C24: for every input the timestamp rule matches, the values written
\* into the data-epoch, data-style and title attributes of the rendered
\* span contain no raw double quote, "<" or ">".
C24_NoAttributeBreakout ==
  \A k \in 1..Len(rendered) :
    /\ ~HasBreakout(rendered[k].epoch)
    /\ ~HasBreakout(rendered[k].style)
    /\ ~HasBreakout(rendered[k].title)

\* the data-epoch value, the decimal form of a number, holds none of them
C24_EpochAttributeClean ==
  \A k \in 1..Len(rendered) :
    rendered[k].epoch # <<>> /\ ~HasBreakout(rendered[k].epoch)

\* a style that is a double quote has been written into data-style
C24_QuoteInStyle ==
  \E k \in 1..Len(rendered) : rendered[k].style = <<"\"">>

----------------------------------------------------------------------------
(* Claims about the results of sanitizeUrl *)

AllowedSchemes ==
  {<<"h", "t", "t", "p">>, <<"h", "t", "t", "p", "s">>, <<"m", "a", "i", "l", "t", "o">>}

BlockedSchemes ==
  {<<"j", "a", "v", "a", "s", "c", "r", "i", "p", "t">>, <<"d", "a", "t", "a">>,
   <<"v", "b", "s", "c", "r", "i", "p", "t">>}

\* C25: for every input sanitizeUrl returns the empty string or a string
\* that begins with http:, https: or mailto: (in any case), with "/" or
\* with "#"; it never returns one that begins with javascript:, data: or
\* vbscript:.
C25_SafeResult ==
  \A i \in 1..Len(urlOuts) :
    /\ \/ urlOuts[i] = <<>>
       \/ HasScheme(urlOuts[i], AllowedSchemes)
       \/ urlOuts[i][1] \in {"/", "#"}
    /\ ~HasScheme(urlOuts[i], BlockedSchemes)

\* a script URL in mixed case behind a blank was rejected
C25_Witness ==
  /\ Len(urlOuts) >= 1
  /\ urlIn = <<" ">> \o <<"J", "a", "v", "a", "S", "c", "r", "i", "p", "t", ":">>
  /\ urlOuts[1] = <<>>

\* C26: sanitizeUrl is idempotent, sanitizeUrl(sanitizeUrl(u)) =
\* sanitizeUrl(u): a rejected URL stays rejected, sanitizeUrl("") = "", and
\* an accepted URL is not changed by a second pass.
C26_Idempotent ==
  /\ \A i \in 2..Len(urlOuts) : urlOuts[i] = urlOuts[i - 1]
  /\ \A i \in 1..Len(urlOuts) : UrlCallInput(i) = <<>> => urlOuts[i] = <<>>

\* a second pass changes nothing but a rejected URL, which becomes https://
C26_SecondPass ==
  \A i \in 2..Len(urlOuts) :
    urlOuts[i] = IF urlOuts[i - 1] = <<>> THEN HttpsPrefix ELSE urlOuts[i - 1]

----------------------------------------------------------------------------
(* Claims about the two relative-time formatters and the token round trip *)

\* C27: the two relative-time formatters agree: for every epoch and every
\* current time the renderer's formatRelativeTime and the time library's
\* return the same text, at diff = 0 and at each rung of the ladder too.
C27_FormattersAgree ==
  styleIn = <<"R">> =>
    \A k, j \in 1..Len(outs) :
      (/\ outs[k].fn = "formatTimestamp"
       /\ outs[j].fn = "formatTimestampPreview"
       /\ outs[k].now = outs[j].now)
      => outs[k].out = outs[j].out

\* they agree whenever the epoch is not the current second
C27_AgreeAwayFromNow ==
  styleIn = <<"R">> =>
    \A k, j \in 1..Len(outs) :
      (/\ outs[k].fn = "formatTimestamp"
       /\ outs[j].fn = "formatTimestampPreview"
       /\ outs[k].now = outs[j].now
       /\ outs[k].now # epochIn)
      => outs[k].out = outs[j].out

\* both formatters were called in the same second, on a rung of the ladder
C27_BothCalledOnRung ==
  /\ styleIn = <<"R">>
  /\ \E k, j \in 1..Len(outs) :
       /\ outs[k].fn = "formatTimestamp"
       /\ outs[j].fn = "formatTimestampPreview"
       /\ outs[k].now = outs[j].now
       /\ epochIn - outs[k].now = 3600
       /\ outs[k].out = "in 1 hour"

\* the decimal form of an integer
RECURSIVE Decimal(_)
Decimal(n) ==
  IF n < 0 THEN <<"-">> \o Decimal(0 - n)
  ELSE IF n < 10 THEN <<DigitChars[n + 1]>>
  ELSE Decimal(n \div 10) \o Decimal(n % 10)

\* the call parses the whole source from its first character
WholeSourceCall(call) ==
  /\ call.rule = "discord_timestamp"
  /\ ~call.silent
  /\ call.before.pos = 0
  /\ call.before.posMax = Len(call.before.src)

\* C28: for every integer epoch and every style of t, T, d, D, f, F, R, or
\* no style, the timestamp rule applied to generateTimestampToken(epoch,
\* style) matches the whole token and gives a token whose data-epoch is the
\* decimal form of the epoch and whose data-style is the style, f when the
\* style was left out or f.
C28_TokenRoundTrip ==
  \A k \in 1..Len(ruleLog) :
    \A epoch \in TokenEpochs, style \in TokenStyles :
      LET call == ruleLog[k]
          new == Emitted(call)
      IN  (/\ WholeSourceCall(call)
           /\ call.before.src = generateTimestampToken(epoch, style))
          => /\ call.ok
             /\ call.after.pos = Len(call.before.src)
             /\ Len(new) = 1
             /\ new[1].type = "discord_timestamp"
             /\ attrGet(new[1], DataEpoch) = Decimal(epoch)
             /\ attrGet(new[1], DataStyle) = IF style = <<>> THEN <<"f">> ELSE style

\* the token made of epoch 1700000000 and style R was parsed back
C28_Witness ==
  /\ \E k \in 1..Len(ruleLog) :
       /\ WholeSourceCall(ruleLog[k])
       /\ ruleLog[k].before.src = NowRelative
       /\ ruleLog[k].ok
       /\ attrGet(Emitted(ruleLog[k])[1], DataStyle) = <<"R">>
  /\ NowRelative = generateTimestampToken(1700000000, <<"R">>)

----------------------------------------------------------------------------
(* The store (store/useAppStore) and its persistence (src/lib/storage.ts) *)

\* the most drafts the store holds
MaxDrafts == 2

\* STORAGE_KEYS
ContentKey == "dmf.content:v1"

SettingsKey == "dmf.settings:v1"

DraftsKey == "dmf.drafts:v1"

MigrationKey == "dmf.mig:v1"

CURRENT_SCHEMA_VERSION == 1

\* JSON.stringify of a string, a number, a boolean, or an array or object
\* of them: a text that JSON.parse reads back
JSONstringify(value) == [ok |-> TRUE, json |-> value]

\* an item that is no JSON text: JSON.parse throws on it
Malformed == [ok |-> FALSE, json |-> "{"]

\* localStorage.getItem: <<>> stands for null
getItem(storage, key) == IF key \in DOMAIN storage THEN <<storage[key]>> ELSE <<>>

\* localStorage.setItem
setItem(storage, key, item) ==
  [k \in DOMAIN storage \cup {key} |-> IF k = key THEN item ELSE storage[k]]

\* safeGetItem: the fallback for a missing item and for one that does not
\* parse
safeGetItem(storage, key, fallback) ==
  LET item == getItem(storage, key)
  IN  IF item = <<>> THEN fallback
      ELSE IF ~item[1].ok THEN fallback
      ELSE item[1].json

\* safeSetItem, the write succeeding
safeSetItem(storage, key, value) == setItem(storage, key, JSONstringify(value))

\* runMigrations: the storage it leaves
runMigrations(storage) ==
  LET currentVersion == safeGetItem(storage, MigrationKey, 0)
  IN  IF currentVersion < CURRENT_SCHEMA_VERSION
      THEN safeSetItem(storage, MigrationKey, CURRENT_SCHEMA_VERSION)
      ELSE storage

loadContent(storage) == safeGetItem(storage, ContentKey, <<>>)

\* saveContent that writes nothing
saveContentDropped(storage, text) == storage

saveContent(storage, text) == safeSetItem(storage, ContentKey, text)

loadSettings(storage) == safeGetItem(storage, SettingsKey, defaultSettings)

saveSettings(storage, settings) == safeSetItem(storage, SettingsKey, settings)

loadDrafts(storage) == safeGetItem(storage, DraftsKey, <<>>)

saveDrafts(storage, drafts) == safeSetItem(storage, DraftsKey, drafts)

\* the settings object the three setters build from the store
SettingsOf(st) ==
  [theme |-> st.theme, tz |-> st.tz, analyticsEnabled |-> st.analyticsEnabled]

\* drafts.find((d) => d.id === id): <<>> for undefined
findDraft(drafts, id) ==
  LET K == {k \in 1..Len(drafts) : drafts[k].id = id}
  IN  IF K = {} THEN <<>> ELSE <<drafts[SetMin(K)]>>

\* drafts.filter((d) => d.id !== id)
RECURSIVE withoutDraft(_, _)
withoutDraft(drafts, id) ==
  IF drafts = <<>> THEN <<>>
  ELSE IF drafts[1].id = id THEN withoutDraft(Tail(drafts), id)
  ELSE <<drafts[1]>> \o withoutDraft(Tail(drafts), id)

(* The inputs: texts, themes, time zones, the ids generateId may draw, and *)
(* the storage a session may find: empty, written by an earlier session,   *)
(* or holding an item that is no JSON.                                     *)
StoreTexts == {<<>>, <<"a">>, <<"b">>}

Themes == {"dark", "light", "system"}

TimeZones == {SystemTz, "UTC"}

DraftIds == {"k3j9x", "p0q2m"}

EarlierDraft == [id |-> "k3j9x", title |-> "t", content |-> <<"b">>, updatedAt |-> 1699999940]

InitialItems ==
  [content : {<<>>, <<JSONstringify(<<"a">>)>>, <<Malformed>>},
   settings : {<<>>, <<JSONstringify([theme |-> "dark", tz |-> "UTC", analyticsEnabled |-> TRUE])>>,
               <<Malformed>>},
   drafts : {<<>>, <<JSONstringify(<<EarlierDraft>>)>>, <<Malformed>>},
   migration : {<<>>, <<JSONstringify(CURRENT_SCHEMA_VERSION)>>}]

\* the storage that holds the items given
StorageOf(items) ==
  LET keyed == [k \in {ContentKey, SettingsKey, DraftsKey, MigrationKey} |->
                  IF k = ContentKey THEN items.content
                  ELSE IF k = SettingsKey THEN items.settings
                  ELSE IF k = DraftsKey THEN items.drafts
                  ELSE items.migration]
  IN  [k \in {x \in DOMAIN keyed : keyed[x] # <<>>} |-> keyed[k][1]]

StoreCall(op, arg) ==
  <<[op |-> op, arg |-> arg, hydrated |-> hydrated,
     before |-> [content |-> content, store |-> store]]>>

\* the module is loaded: the store holds its initial state
InitStore ==
  /\ content = <<>>
  /\ selection = [start |-> 0, end |-> 0]
  /\ hist = <<>>
  /\ store = [theme |-> "system", tz |-> SystemTz, analyticsEnabled |-> FALSE,
              drafts |-> <<>>]
  /\ \E items \in InitialItems : localStorage = StorageOf(items)
  /\ hydrated = FALSE
  /\ lastCall = <<>>
  /\ clock = SetMax(Clocks)
  /\ IdleSanitizer /\ IdleTime /\ IdleParser /\ IdleRenderer /\ IdleRegistry

\* hydrate, called when the application mounts (and callable again)
Hydrate ==
  LET migrated == runMigrations(localStorage)
      settings == loadSettings(migrated)
  IN  /\ content' = loadContent(migrated)
      /\ store' = [theme |-> settings.theme, tz |-> settings.tz,
                   analyticsEnabled |-> settings.analyticsEnabled,
                   drafts |-> loadDrafts(migrated)]
      /\ localStorage' = migrated
      /\ hydrated' = TRUE
      /\ lastCall' = StoreCall("hydrate", <<>>)
      /\ UNCHANGED <<selection, hist, sanitizerVars, clock, timeVars, parserVars,
                     rendererVars, registryVars>>

SetContent ==
  /\ hydrated
  /\ \E text \in StoreTexts :
       /\ content' = text
       /\ localStorage' = saveContent(localStorage, text)
       /\ lastCall' = StoreCall("setContent", text)
  /\ UNCHANGED <<store, hydrated, selection, hist, sanitizerVars, clock, timeVars,
                 parserVars, rendererVars, registryVars>>

SetTheme ==
  /\ hydrated
  /\ \E theme \in Themes :
       /\ store' = [store EXCEPT !.theme = theme]
       /\ localStorage' = saveSettings(localStorage,
                                       SettingsOf([store EXCEPT !.theme = theme]))
       /\ lastCall' = StoreCall("setTheme", theme)
  /\ UNCHANGED <<content, hydrated, selection, hist, sanitizerVars, clock, timeVars,
                 parserVars, rendererVars, registryVars>>

SetTimezone ==
  /\ hydrated
  /\ \E tz \in TimeZones :
       /\ store' = [store EXCEPT !.tz = tz]
       /\ localStorage' = saveSettings(localStorage,
                                       SettingsOf([store EXCEPT !.tz = tz]))
       /\ lastCall' = StoreCall("setTimezone", tz)
  /\ UNCHANGED <<content, hydrated, selection, hist, sanitizerVars, clock, timeVars,
                 parserVars, rendererVars, registryVars>>

SetAnalyticsEnabled ==
  /\ hydrated
  /\ \E enabled \in BOOLEAN :
       /\ store' = [store EXCEPT !.analyticsEnabled = enabled]
       /\ localStorage' = saveSettings(localStorage,
                            SettingsOf([store EXCEPT !.analyticsEnabled = enabled]))
       /\ lastCall' = StoreCall("setAnalyticsEnabled", enabled)
  /\ UNCHANGED <<content, hydrated, selection, hist, sanitizerVars, clock, timeVars,
                 parserVars, rendererVars, registryVars>>

\* saveDraft: generateId draws an id, Date.now() reads the clock (kept in
\* seconds here)
SaveDraft ==
  /\ hydrated
  /\ Len(store.drafts) < MaxDrafts
  /\ \E id \in DraftIds :
       LET newDraft == [id |-> id, title |-> "t", content |-> content,
                        updatedAt |-> clock]
           updatedDrafts == Append(store.drafts, newDraft)
       IN  /\ store' = [store EXCEPT !.drafts = updatedDrafts]
           /\ localStorage' = saveDrafts(localStorage, updatedDrafts)
           /\ lastCall' = StoreCall("saveDraft", id)
  /\ UNCHANGED <<content, hydrated, selection, hist, sanitizerVars, clock, timeVars,
                 parserVars, rendererVars, registryVars>>

LoadDraft ==
  /\ hydrated
  /\ \E id \in DraftIds :
       LET draft == findDraft(store.drafts, id)
       IN  /\ lastCall' = StoreCall("loadDraft", id)
           /\ IF draft # <<>>
              THEN /\ content' = draft[1].content
                   /\ localStorage' = saveContent(localStorage, draft[1].content)
              ELSE UNCHANGED <<content, localStorage>>
  /\ UNCHANGED <<store, hydrated, selection, hist, sanitizerVars, clock, timeVars,
                 parserVars, rendererVars, registryVars>>

DeleteDraft ==
  /\ hydrated
  /\ \E id \in DraftIds :
       LET updatedDrafts == withoutDraft(store.drafts, id)
       IN  /\ store' = [store EXCEPT !.drafts = updatedDrafts]
           /\ localStorage' = saveDrafts(localStorage, updatedDrafts)
           /\ lastCall' = StoreCall("deleteDraft", id)
  /\ UNCHANGED <<content, hydrated, selection, hist, sanitizerVars, clock, timeVars,
                 parserVars, rendererVars, registryVars>>

NextStore ==
  \/ Hydrate
  \/ SetContent
  \/ SetTheme
  \/ SetTimezone
  \/ SetAnalyticsEnabled
  \/ SaveDraft
  \/ LoadDraft
  \/ DeleteDraft

SpecStore == InitStore /\ [][NextStore]_vars

C22_SecondHydrate ==
  /\ lastCall # <<>>
  /\ lastCall[1].op = "hydrate"
  /\ lastCall[1].hydrated
  /\ store.drafts # <<>>

----------------------------------------------------------------------------
(* The language registry (lib/languages): alias resolution and lazy loads *)

\* the most loadLanguage calls in one behaviour
MaxLoads == 3

\* ALL_LANGUAGES.find((l) => l.id === lower): <<>> for undefined
findById(id) ==
  LET K == {k \in 1..Len(ALL_LANGUAGES) : ALL_LANGUAGES[k].id = id}
  IN  IF K = {} THEN <<>> ELSE <<ALL_LANGUAGES[SetMin(K)]>>

\* ALL_LANGUAGES.find((l) => l.aliases.includes(lower))
findByAlias(alias) ==
  LET K == {k \in 1..Len(ALL_LANGUAGES) :
              \E a \in 1..Len(ALL_LANGUAGES[k].aliases) : ALL_LANGUAGES[k].aliases[a] = alias}
  IN  IF K = {} THEN <<>> ELSE <<ALL_LANGUAGES[SetMin(K)]>>

resolveLanguageAlias(input) ==
  LET lower == trim(lowerCaseOf(input))
      exact == findById(lower)
      byAlias == findByAlias(lower)
  IN  IF exact # <<>> THEN exact[1].id
      ELSE IF byAlias # <<>> THEN byAlias[1].id
      ELSE lower

isLanguageLoaded(langId) == resolveLanguageAlias(langId) \in loadedLanguages

\* getAvailableLanguages: the loaded field of each entry
getAvailableLanguages ==
  [k \in 1..Len(ALL_LANGUAGES) |->
     [id |-> ALL_LANGUAGES[k].id, loaded |-> ALL_LANGUAGES[k].id \in loadedLanguages]]

(* The inputs of loadLanguage: ids and aliases of lazy languages in several *)
(* spellings, a core language, and names the tables do not hold.           *)
LoadInputs ==
  { <<"r", "u", "s", "t">>, <<"r", "s">>, <<" ", "R", "S">>, <<"g", "o">>, <<"j", "s">>,
    <<"z", "i", "g">>, <<>> }

Pending == "pending"

LoadCall(langId, state) ==
  [langId |-> langId, resolved |-> resolveLanguageAlias(langId), state |-> state]

InitRegistry ==
  /\ IdleRegistry
  /\ clock = 0
  /\ IdleEditor /\ IdleSanitizer /\ IdleTime /\ IdleParser /\ IdleRenderer /\ IdleStore

\* loadLanguage up to its await: the call returns true for a loaded
\* language, false for an unknown one, and otherwise waits for the import
LoadLanguage ==
  /\ Len(loads) < MaxLoads
  /\ \E langId \in LoadInputs :
       LET resolved == resolveLanguageAlias(langId)
       IN  loads' = Append(loads,
                           LoadCall(langId,
                                    IF resolved \in loadedLanguages THEN "true"
                                    ELSE IF findById(resolved) = <<>> THEN "false"
                                    ELSE Pending))
  /\ UNCHANGED <<loadedLanguages, infoLoaded, aliasCalls, storeVars, editorVars,
                 sanitizerVars, clock, timeVars, parserVars, rendererVars>>

\* the import of a waiting call resolves, and the call sets the flag but
\* leaves the set as it is
ImportResolvesFlagOnly ==
  \E k \in 1..Len(loads) :
    /\ loads[k].state = Pending
    /\ infoLoaded' = [infoLoaded EXCEPT ![loads[k].resolved] = TRUE]
    /\ loads' = [loads EXCEPT ![k].state = "true"]
    /\ UNCHANGED <<loadedLanguages, aliasCalls, storeVars, editorVars, sanitizerVars, clock,
                   timeVars, parserVars, rendererVars>>

\* the import of a waiting call resolves: the call goes on behind its await
\* and runs to its return
ImportResolves ==
  \E k \in 1..Len(loads) :
    /\ loads[k].state = Pending
    /\ loadedLanguages' = loadedLanguages \cup {loads[k].resolved}
    /\ infoLoaded' = [infoLoaded EXCEPT ![loads[k].resolved] = TRUE]
    /\ loads' = [loads EXCEPT ![k].state = "true"]
    /\ UNCHANGED <<aliasCalls, storeVars, editorVars, sanitizerVars, clock, timeVars,
                   parserVars, rendererVars>>

\* the import of a waiting call is rejected: the catch block returns false
ImportRejects ==
  \E k \in 1..Len(loads) :
    /\ loads[k].state = Pending
    /\ loads' = [loads EXCEPT ![k].state = "false"]
    /\ UNCHANGED <<loadedLanguages, infoLoaded, aliasCalls, storeVars, editorVars,
                   sanitizerVars, clock, timeVars, parserVars, rendererVars>>

NextRegistry == LoadLanguage \/ ImportResolves \/ ImportRejects

SpecRegistry == InitRegistry /\ [][NextRegistry]_vars

\* what holds of the registry in every state
RegistryConsistent ==
  /\ IdsOf(CORE_LANGUAGES) \subseteq loadedLanguages
  /\ loadedLanguages \subseteq IdsOf(ALL_LANGUAGES)
  /\ \A id \in IdsOf(ALL_LANGUAGES) : infoLoaded[id] <=> id \in loadedLanguages
  /\ \A k \in 1..Len(getAvailableLanguages) :
       getAvailableLanguages[k].loaded = infoLoaded[getAvailableLanguages[k].id]
  /\ \A k \in 1..Len(loads) :
       /\ findById(loads[k].resolved) = <<>> => loads[k].state = "false"
       /\ loads[k].state = "true" => isLanguageLoaded(loads[k].langId)

\* C29: under every interleaving of loadLanguage calls, imports resolving or
\* being rejected, the loaded set only grows, holds every core language and
\* only ids of ALL_LANGUAGES (the call for an unknown language resolves
\* false), the loaded flag of a language is true exactly when its id is in
\* the set, and after a call loadLanguage(x) resolved true isLanguageLoaded(x)
\* stays true.
C29_RegistryUnderConcurrentLoads ==
  /\ []RegistryConsistent
  /\ [][loadedLanguages \subseteq loadedLanguages']_vars

\* a lazy language was loaded by one call while the import of another call
\* for it, under another name, was rejected, and a call for an unknown
\* language has returned
C29_Witness ==
  \E i, j, k \in 1..Len(loads) :
    /\ loads[i].resolved = loads[j].resolved
    /\ loads[i].langId # loads[j].langId
    /\ loads[i].state = "true"
    /\ loads[j].state = "false"
    /\ infoLoaded[loads[i].resolved]
    /\ loads[i].resolved \notin IdsOf(CORE_LANGUAGES)
    /\ findById(loads[k].resolved) = <<>>

----------------------------------------------------------------------------
(* The two alias tables: the picker resolves a tag with the registry's     *)
(* resolveLanguageAlias, the renderer with normalizeLanguage.              *)

\* the most tags resolved in one behaviour
MaxAliasCalls == 2

\* the aliases of a table
AliasesOf(table) ==
  UNION {{table[k].aliases[a] : a \in 1..Len(table[k].aliases)} : k \in 1..Len(table)}

(* The tags: every id and alias of the registry, every key of LANG_ALIASES, *)
(* and an alias in capitals, one with a blank before it, an unknown name   *)
(* and no tag.                                                             *)
AliasTags ==
  IdsOf(ALL_LANGUAGES) \cup AliasesOf(ALL_LANGUAGES) \cup {pair[1] : pair \in LANG_ALIASES}
    \cup {<<"J", "S">>, <<" ", "j", "s">>, <<"z", "i", "g">>, <<>>}

InitAliases ==
  /\ IdleRegistry
  /\ clock = 0
  /\ IdleEditor /\ IdleSanitizer /\ IdleTime /\ IdleParser /\ IdleRenderer /\ IdleStore

\* a tag is resolved by the picker (handleInsert) and by the renderer (the
\* highlight option)
ResolveTag ==
  /\ Len(aliasCalls) < MaxAliasCalls
  /\ \E tag \in AliasTags :
       aliasCalls' = Append(aliasCalls,
                            [tag |-> tag,
                             registry |-> resolveLanguageAlias(tag),
                             renderer |-> normalizeLanguage(tag)])
  /\ UNCHANGED <<loadedLanguages, infoLoaded, loads, storeVars, editorVars,
                 sanitizerVars, clock, timeVars, parserVars, rendererVars>>

NextAliases == ResolveTag

SpecAliases == InitAliases /\ [][NextAliases]_vars

\* C30: normalizeLanguage and resolveLanguageAlias resolve every tag to the
\* same canonical id.
C30_TablesAgree ==
  \A k \in 1..Len(aliasCalls) : aliasCalls[k].renderer = aliasCalls[k].registry

\* the two agree on the keys of LANG_ALIASES and on the ids of the registry,
\* in any case of the letters
C30_AgreeOnRendererAliases ==
  \A k \in 1..Len(aliasCalls) :
    lowerCaseOf(aliasCalls[k].tag) \in IdsOf(ALL_LANGUAGES) \cup {pair[1] : pair \in LANG_ALIASES}
      => aliasCalls[k].renderer = aliasCalls[k].registry

\* an alias only the registry knows was resolved by both
C30_RegistryOnlyAlias ==
  \E k \in 1..Len(aliasCalls) :
    /\ aliasCalls[k].tag = <<"r", "s">>
    /\ aliasCalls[k].registry = <<"r", "u", "s", "t">>
    /\ aliasCalls[k].renderer = <<"r", "s">>

====
